---- MODULE Spec2Model ----
(***************************************************************************)
(* Verification model of hypnotoad (pcphp/hypnotoad).                      *)
(*                                                                         *)
(* The module holds one state machine per subsystem of the program; each   *)
(* has its own initial predicate, next-state relation and specification,   *)
(* and leaves the variables of the other subsystems unchanged:             *)
(*                                                                         *)
(*   SpecGeom     Mesh.makeRegions (y-groups) and Mesh.geometry, with      *)
(*                MeshRegion.calcZShift             (src/mesh.py)          *)
(*   SpecContour  PsiContour and its cached FineContour / distance         *)
(*                                    (src/hypnotoad/core/equilibrium.py)  *)
(*   SpecRefine   PsiContour.refinePoint and its methods                   *)
(*   SpecFine     FineContour.equaliseSpacing                              *)
(*   SpecWall     MeshRegion.addPointAtWallToContours                      *)
(*   SpecSfunc    EquilibriumRegion.getRegridded and the spacing laws      *)
(*   SpecDistribute  MeshRegion.distributePointsNonorthogonal              *)
(*   SpecRZ       MeshRegion.fillRZ and getRZBoundary over all regions     *)
(*   SpecGrid     a run: BoutMesh(...) and then BoutMesh.geometry()         *)
(*   SpecTopology BoutMesh(...) and then BoutMesh.writeGridfile()          *)
(*   SpecMetric   MeshRegion.geometry and calcMetric at one location        *)
(*   SpecArray    MultiLocationArray: setters, getters and ufuncs           *)
(*   SpecReverse  FineContour: __init__, extend and reverse                 *)
(*   SpecLinesearch  refinePoint with "line" as its only method, run to its end*)
(*   SpecIntersect  Equilibrium.wallIntersection and find_intersections    *)
(*   SpecFind     PsiContour.insertFindPosition                            *)
(*   SpecGroups   Mesh.makeRegions: the x-groups and then the y-groups     *)
(*   SpecXInd     MeshRegion.globalXInd over the segments of a region      *)
(*   SpecConnect  Equilibrium.makeConnection                               *)
(***************************************************************************)
EXTENDS Integers, Sequences, FiniteSets, TLC

VARIABLES
    \* ---- Mesh / MeshRegion (src/mesh.py) ----
    upper,        \* connections['upper'] of every region (NoRegion = None)
    dphi,         \* integral of dphidy*dy over each region (input)
    yGroupIndex,  \* MeshRegion.yGroupIndex (NoIndex = None)
    region_set,   \* makeRegions: regions not yet put in a y-group
    y_groups,     \* Mesh.y_groups
    gpc,          \* position in Mesh.__init__ / Mesh.geometry
    gi,           \* loop variable of the 'for region in self.regions.values()' loops
    started,      \* per region, the methods of Mesh.geometry that have been entered
    ran,          \* per region, the methods of Mesh.geometry that have completed
    zShift,       \* per region, the zShift array (lower and upper ylow/corner edge)
    walk,         \* calcZShift: local variable 'region' of the running walk
    zlog,         \* order in which regions had their zShift computed
    \* ---- PsiContour (src/hypnotoad/core/equilibrium.py) ----
    points,       \* PsiContour.points
    startInd,     \* PsiContour._startInd
    endInd,       \* PsiContour._endInd (may be negative: relative to the end)
    extend_lower, \* PsiContour._extend_lower
    extend_upper, \* PsiContour._extend_upper
    fine_contour, \* PsiContour._fine_contour: "none", or whether the cached
                  \* FineContour was computed from the contour as it is now
                  \* ("fresh") or as it was before a later mutation ("stale")
    distance,     \* PsiContour._distance, likewise
    cpc,          \* which caller drives the contour
    \* ---- PsiContour.refinePoint ----
    methods,      \* the list methods.split(",")
    psival,       \* 2 * |self.psival| (NonePsival = None)
    p_in,         \* argument p, as its residual |psi(p) - psival|
    width,        \* argument width
    rpc,          \* position in refinePoint
    mi,           \* position of the for loop in methods (1-based)
    fprev,        \* refinePointNewton: |fprev|
    ncount,       \* refinePointNewton: count
    halvings,     \* refinePointLinesearch: number of 'w /= 2.0' so far
    line_point,   \* refinePointLinesearch: offset of pline(snew) from p along the line
    result,       \* the returned point, as its residual
    producer,     \* the listed method that returned it
    tried,        \* the methods called so far, in order
    raisedLog,    \* the methods that raised SolutionError so far, in order
    \* ---- FineContour ----
    finecontour_maxits, \* FineContour.options.finecontour_maxits (NoneMaxits = None)
    finecontour_atol,   \* FineContour.options.finecontour_atol
    ds_error,     \* equaliseSpacing: ds_error of the current positions
    count,        \* equaliseSpacing: count
    fpc,          \* position in FineContour.__init__ / extend / equaliseSpacing
    warned,       \* the running equaliseSpacing gave the maximum-iterations warning
    caller,       \* who called the running equaliseSpacing
    nextends,     \* number of calls of extend so far
    \* ---- MeshRegion.addPointAtWallToContours (src/mesh.py) ----
    lower_wall,   \* connections['lower'] is None
    upper_wall,   \* connections['upper'] is None
    wallLo,       \* where the lower wall crosses the contour
    wallHi,       \* where the upper wall crosses the contour
    wpc,          \* position in the loop body of addPointAtWallToContours
    lower_intersect,        \* None or the intersection with the lower wall
    lower_intersect_index,
    upper_intersect,        \* None or the intersection with the upper wall
    upper_intersect_index,
    wcount,        \* count
    \* ---- EquilibriumRegion spacing laws (src/hypnotoad/core/equilibrium.py) ----
    orthogonal,   \* user_options.orthogonal
    poloidal_spacing_method,      \* user_options.poloidal_spacing_method
    nonorthogonal_spacing_method, \* user_options.nonorthogonal_spacing_method
    y_boundary_guards,            \* user_options.y_boundary_guards
    total_distance,  \* distance[endInd] - distance[startInd] of the region's contour
    d_lower,      \* options.monotonic_d_lower
    d_upper,      \* options.monotonic_d_upper
    N_norm,       \* options.N_norm
    region_extend_lower, \* extend_lower of the EquilibriumRegion
    region_extend_upper, \* extend_upper of the EquilibriumRegion
    radialIndex,  \* makeRegions: the loop variable i of 'range(eq_region.nSegments)'
    checked,      \* the indices the last _checkMonotonic evaluated (NotChecked = none)
    s_regrid,     \* PsiContour.getRegridded: s = sfunc(indices)
    spc,           \* position in the makeRegions loop over the segments
    \* ---- MeshRegion.distributePointsNonorthogonal (src/mesh.py) ----
    wallSurfaceAtStart, \* equilibriumRegion.wallSurfaceAtStart is not None
    wallSurfaceAtEnd,   \* equilibriumRegion.wallSurfaceAtEnd is not None
    i_contour,    \* loop variable of 'for i_contour, contour in enumerate(self.contours)'
    sfunc_log,    \* what 'sfunc' was bound to for every contour regridded so far
    dpc,           \* position in distributePointsNonorthogonal
    \* ---- MeshRegion.fillRZ / getRZBoundary (src/mesh.py) ----
    periodic_y,   \* the upper end of the second poloidal region connects to the first
    xpoint_between, \* an X-point sits where the four regions meet
    Rxy_ylow,     \* per region, Rxy.ylow[:, 0] and Rxy.ylow[:, -1]
    Rxy_corners,  \* per region, Rxy.corners[0|-1, 0|-1]
    filled,       \* regions whose fillRZ has run
    matched,       \* regions whose getRZBoundary has run
    shiftedmetric,   \* user_options.shiftedmetric
    curvature_type,  \* user_options.curvature_type
    user_guards,     \* user_options.y_boundary_guards of the BoutMesh
    options_nx,      \* eq_region0.options.nx: cells of each radial segment
    nx_compatible,   \* every equilibrium region has the same options.nx
    eq_ny_noguards,  \* ny_noguards of each equilibrium region, in order
    wall_ends,       \* region ends with connection None (each adds guards to ny)
    separatrix_radial_index, \* of eq_region0
    regions_built,   \* MeshRegions constructed (contours traced and refined)
    nx,              \* BoutMesh.nx
    ny,              \* BoutMesh.ny, boundary guard cells included
    ny_noguards,     \* BoutMesh.ny_noguards
    x_startinds,     \* BoutMesh.x_startinds
    y_regions_noguards, \* BoutMesh.y_regions_noguards
    region_arrays,   \* per MeshRegion: attributes holding a MultiLocationArray
    region_floats,   \* per MeshRegion: attributes holding a plain float
    metric_index,    \* region the calcMetric loop of Mesh.geometry is at
    fields_to_output, \* BoutMesh.fields_to_output
    file_created,    \* DataFile(filename, create=True) has run
    gridfile,        \* variables written to the grid file
    bpc,             \* position of the run
    berror,           \* exception that ended the run
    psi_decreasing,  \* psi_vals[0] > psi_vals[-1]
    Bp_dot_grady,    \* sign of Bp . Grad(y) at centre[-1, ny//2]
    Bp_magnitude,    \* sqrt(Brxy**2 + Bzxy**2) at the location
    Rxy,             \* major radius at the location
    Btxy,            \* toroidal field at the location
    hy,              \* calcHy at the location (asserted positive)
    at_xpoint,       \* the location is a corner at an X-point
    sqrt_error,      \* relative rounding error of 1/sqrt(det g)
    geometry_rtol,   \* user_options.geometry_rtol
    bpsign,          \* MeshRegion.bpsign
    Bpxy,            \* MeshRegion.Bpxy at the location
    J,               \* MeshRegion.J at the location
    one_over_sqrt_g, \* 1/sqrt(det g) at the location, as computed
    Jcheck,          \* the value J is compared with
    mpc,             \* position in geometry() / calcMetric() of the region
    merror,           \* exception raised
    materialised,    \* per MultiLocationArray: locations whose _<loc>_array is not None
    assigned,        \* per MultiLocationArray: locations assigned through a setter
    operands,        \* locations of the two operands when the last ufunc was applied
    ufunc_result,    \* locations of the MultiLocationArray the last ufunc returned
    ufunc_error,      \* exception raised by the last ufunc
    n_input,         \* FineContour.__init__: endInd - startInd + 1 of the parent
    parent_extend_lower, \* parentContour.extend_lower
    parent_extend_upper, \* parentContour.extend_upper
    ds_fine,         \* distance between neighbouring points of the fine contour
    extend_lower_fine, \* FineContour.extend_lower_fine
    extend_upper_fine, \* FineContour.extend_upper_fine
    positions,       \* FineContour.positions, each as its place along the contour
    fine_startInd,   \* FineContour.startInd
    fine_endInd,     \* FineContour.endInd
    fine_distance,   \* FineContour.distance
    before_reverse,  \* the contour as it was before the latest run of reverse() calls
    reversals,       \* reverse() calls since then
    fine_calls,      \* extend() and reverse() calls so far
    fine_pc,          \* "construct" before FineContour(...), "ready" after
    \* ---- Equilibrium.wallIntersection (src/hypnotoad/core/equilibrium.py) ----
    wall,            \* self.wall: the wall's vertices <<R, Z>>, not closed
    seg_start,       \* p1
    seg_end,         \* p2
    intersects,      \* what find_intersections returned; <<>> for None
    wall_intersect,  \* the returned intersect: <<>> for None, else <<point>>
    ipc,             \* "call" | "returned" | "raised" | "parked"
    ierror,           \* the message of the AssertionError, "" if none
    \* ---- PsiContour.insertFindPosition (src/hypnotoad/core/equilibrium.py) ----
    psi_contour,     \* the PsiContour the point is inserted into
    contour_before,  \* its points when insertFindPosition was called
    new_point,       \* argument point
    found_index,     \* the returned index
    fppc,             \* "call" | "returned" | "parked"
    \* ---- Mesh.makeRegions: the groups that connect in x (src/mesh.py) ----
    nSegments,       \* nSegments of every equilibrium region, in the order of the regions
    x_region_set,    \* makeRegions: region_set of the loop that builds x_groups
    x_groups,         \* Mesh.x_groups
    \* ---- MeshRegion.globalXInd (src/mesh.py) ----
    segment_nx,      \* equilibriumRegion.options.nx: the number of cells of each radial segment
    sep_index,       \* equilibriumRegion.separatrix_radial_index
    global_xind,     \* per MeshRegion built so far, contours[i].global_xind for every i
    xind_region,      \* radialIndex of the MeshRegion that is built next
    \* ---- Equilibrium.makeConnection (src/hypnotoad/core/equilibrium.py) ----
    conn_nx,         \* options.nx[segment] of every segment (region, segment)
    conn_upper,      \* connections[segment]["upper"] of every segment
    conn_lower,      \* connections[segment]["lower"] of every segment
    conn_call,       \* the arguments <<lower, upper>> of the latest call, <<>> before it
    conn_error       \* the message of its AssertionError, "" if it returned

geomVars == <<upper, dphi, yGroupIndex, region_set, y_groups, gpc, gi,
              started, ran, zShift, walk, zlog>>

contVars == <<points, startInd, endInd, extend_lower, extend_upper, fine_contour,
              distance, cpc>>

refineVars == <<methods, psival, p_in, width, rpc, mi, fprev, ncount, halvings, result,
                producer, tried, raisedLog, line_point>>

fineVars == <<finecontour_maxits, finecontour_atol, ds_error, count, fpc, warned,
              caller, nextends>>

wallVars == <<lower_wall, upper_wall, wallLo, wallHi, wpc, lower_intersect,
              lower_intersect_index, upper_intersect, upper_intersect_index, wcount>>

sfuncVars == <<orthogonal, poloidal_spacing_method, nonorthogonal_spacing_method, y_boundary_guards, total_distance, d_lower, d_upper, N_norm, region_extend_lower, region_extend_upper, radialIndex, checked, s_regrid, spc>>

distributeVars == <<wallSurfaceAtStart, wallSurfaceAtEnd, i_contour, sfunc_log, dpc>>

rzVars == <<periodic_y, xpoint_between, Rxy_ylow, Rxy_corners, filled, matched>>

gridVars == <<shiftedmetric, curvature_type, user_guards, options_nx, nx_compatible, eq_ny_noguards, wall_ends, separatrix_radial_index, regions_built, nx, ny, ny_noguards, x_startinds, y_regions_noguards, region_arrays, region_floats, metric_index, fields_to_output, file_created, gridfile, bpc, berror>>

metricVars == <<psi_decreasing, Bp_dot_grady, Bp_magnitude, Rxy, Btxy, hy, at_xpoint, sqrt_error, geometry_rtol, bpsign, Bpxy, J, one_over_sqrt_g, Jcheck, mpc, merror>>

arrayVars == <<materialised, assigned, operands, ufunc_result, ufunc_error>>

reverseVars == <<n_input, parent_extend_lower, parent_extend_upper, ds_fine, extend_lower_fine, extend_upper_fine, positions, fine_startInd, fine_endInd, fine_distance, before_reverse, reversals, fine_calls, fine_pc>>

intersectVars == <<wall, seg_start, seg_end, intersects, wall_intersect, ipc, ierror>>

findVars == <<psi_contour, contour_before, new_point, found_index, fppc>>

groupsVars == <<nSegments, x_region_set, x_groups>>

xIndVars == <<segment_nx, sep_index, global_xind, xind_region>>

connectVars == <<conn_nx, conn_upper, conn_lower, conn_call, conn_error>>

vars == <<geomVars, contVars, refineVars, fineVars, wallVars, sfuncVars, distributeVars, rzVars, gridVars, metricVars, arrayVars, reverseVars, intersectVars, findVars, groupsVars, xIndVars, connectVars>>

\* What the actions of each subsystem leave alone
OthersOfGeom == <<contVars, refineVars, fineVars, wallVars, sfuncVars, distributeVars, rzVars, gridVars, metricVars, arrayVars, reverseVars, intersectVars, findVars, groupsVars, xIndVars, connectVars>>
OthersOfCont == <<geomVars, refineVars, fineVars, wallVars, sfuncVars, distributeVars, rzVars, gridVars, metricVars, arrayVars, reverseVars, intersectVars, findVars, groupsVars, xIndVars, connectVars>>
OthersOfRefine == <<geomVars, contVars, fineVars, wallVars, sfuncVars, distributeVars, rzVars, gridVars, metricVars, arrayVars, reverseVars, intersectVars, findVars, groupsVars, xIndVars, connectVars>>
OthersOfFine == <<geomVars, contVars, refineVars, wallVars, sfuncVars, distributeVars, rzVars, gridVars, metricVars, arrayVars, reverseVars, intersectVars, findVars, groupsVars, xIndVars, connectVars>>
OthersOfWall == <<geomVars, refineVars, fineVars, sfuncVars, distributeVars, rzVars, gridVars, metricVars, arrayVars, reverseVars, intersectVars, findVars, groupsVars, xIndVars, connectVars>>
OthersOfSfunc == <<geomVars, contVars, refineVars, fineVars, wallVars, distributeVars, rzVars, gridVars, metricVars, arrayVars, reverseVars, intersectVars, findVars, groupsVars, xIndVars, connectVars>>
OthersOfDistribute == <<geomVars, contVars, refineVars, fineVars, wallVars, rzVars, gridVars, metricVars, arrayVars, reverseVars, intersectVars, findVars, groupsVars, xIndVars, connectVars>>
OthersOfRZ == <<geomVars, contVars, refineVars, fineVars, wallVars, sfuncVars, distributeVars, gridVars, metricVars, arrayVars, reverseVars, intersectVars, findVars, groupsVars, xIndVars, connectVars>>
OthersOfGrid == <<geomVars, contVars, refineVars, fineVars, wallVars, sfuncVars, distributeVars, rzVars, metricVars, arrayVars, reverseVars, intersectVars, findVars, groupsVars, xIndVars, connectVars>>
OthersOfMetric == <<geomVars, contVars, refineVars, fineVars, wallVars, sfuncVars, distributeVars, rzVars, gridVars, arrayVars, reverseVars, intersectVars, findVars, groupsVars, xIndVars, connectVars>>
OthersOfArray == <<geomVars, contVars, refineVars, fineVars, wallVars, sfuncVars, distributeVars, rzVars, gridVars, metricVars, reverseVars, intersectVars, findVars, groupsVars, xIndVars, connectVars>>
OthersOfReverse == <<geomVars, contVars, refineVars, fineVars, wallVars, sfuncVars, distributeVars, rzVars, gridVars, metricVars, arrayVars, intersectVars, findVars, groupsVars, xIndVars, connectVars>>
OthersOfIntersect == <<geomVars, contVars, refineVars, fineVars, wallVars, sfuncVars, distributeVars, rzVars, gridVars, metricVars, arrayVars, reverseVars, findVars, groupsVars, xIndVars, connectVars>>
OthersOfFind == <<geomVars, contVars, refineVars, fineVars, wallVars, sfuncVars, distributeVars, rzVars, gridVars, metricVars, arrayVars, reverseVars, intersectVars, groupsVars, xIndVars, connectVars>>
OthersOfGroups == <<geomVars, contVars, refineVars, fineVars, wallVars, sfuncVars, distributeVars, rzVars, gridVars, metricVars, arrayVars, reverseVars, intersectVars, findVars, xIndVars, connectVars>>
OthersOfXInd == <<geomVars, contVars, refineVars, fineVars, wallVars, sfuncVars, distributeVars, rzVars, gridVars, metricVars, arrayVars, reverseVars, intersectVars, findVars, groupsVars, connectVars>>
OthersOfConnect == <<geomVars, contVars, refineVars, fineVars, wallVars, sfuncVars, distributeVars, rzVars, gridVars, metricVars, arrayVars, reverseVars, intersectVars, findVars, groupsVars, xIndVars>>

(***************************************************************************)
(* Bounds of the model                                                     *)
(***************************************************************************)
NRegions == 3
MaxDphi == 2
MaxVisits == 5
MaxLen == 4
MaxExtendCells == 1
MaxMethods == 2
MaxPsival == 3
MaxRes == 4
MaxWidth == 4
MaxIts == 2
MaxAtol == 2
MaxErr == 3
MaxCount == 3
MaxExtends == 1
NyNoguards == 1
MaxGuards == 1
NSegments == 2
MaxDistance == 3
MaxSpacing == 2
MaxNnorm == 2
NContours == 3
MaxXSegments == 3
MaxYRegions == 7
Nfine == 3
MantissaBits == 3
MaxParentExtend == 1
MaxFineExtend == 2
MaxFineCalls == 4
CellCounts == {1, 2}
WallEnds == {0, 2}
SeparatrixIndices == {0, 1}

(***************************************************************************)
(* Mesh.makeRegions and Mesh.geometry                                      *)
(***************************************************************************)
Regions == 1..NRegions
NoRegion == 0
NoIndex == -1

\* MeshRegion.getNeighbour('upper')
getNeighbourUpper(r) == upper[r]

\* connections['lower'], the inverse of 'upper' (Equilibrium.makeConnection sets
\* both ends of a connection together)
lowerOf(r) ==
    IF \E q \in Regions : upper[q] = r
    THEN CHOOSE q \in Regions : upper[q] = r
    ELSE NoRegion

\* The connection maps that makeConnection can build: every upper edge and every
\* lower edge is connected at most once.
ConnectionMaps ==
    { u \in [Regions -> Regions \cup {NoRegion}] :
        \A a, b \in Regions : (a # b /\ u[a] # NoRegion) => u[a] # u[b] }

SeqContains(s, x) == \E k \in 1..Len(s) : s[k] = x

\* The phases of Mesh.geometry, in program order
PhaseOrder == <<"fillRZ", "getRZBoundary", "geometry", "calcZShift", "calcMetric">>
Phases == {PhaseOrder[k] : k \in 1..Len(PhaseOrder)}
PhaseNo(p) == CHOOSE k \in 1..Len(PhaseOrder) : PhaseOrder[k] = p

\* A zShift array that has not been created
NoArray == [made |-> FALSE, lo |-> 0, hi |-> 0]
\* MultiLocationArray(nx, ny): reading a location that was never assigned gives zeros
NewArray == [made |-> TRUE, lo |-> 0, hi |-> 0]

GeomStart ==
    /\ upper \in ConnectionMaps
    /\ dphi \in [Regions -> 1..MaxDphi]
    /\ yGroupIndex = [r \in Regions |-> NoIndex]
    /\ region_set = Regions
    /\ y_groups = <<>>
    /\ gpc = "makeRegions"
    /\ gi = 1
    /\ started = [r \in Regions |-> {}]
    /\ ran = [r \in Regions |-> {}]
    /\ zShift = [r \in Regions |-> NoArray]
    /\ walk = NoRegion
    /\ zlog = <<>>

\* Mesh.geometry is not running
GeomParked ==
    /\ upper = [r \in Regions |-> NoRegion]
    /\ dphi = [r \in Regions |-> 1]
    /\ yGroupIndex = [r \in Regions |-> NoIndex]
    /\ region_set = {}
    /\ y_groups = <<>>
    /\ gpc = "parked"
    /\ gi = 1
    /\ started = [r \in Regions |-> {}]
    /\ ran = [r \in Regions |-> {}]
    /\ zShift = [r \in Regions |-> NoArray]
    /\ walk = NoRegion
    /\ zlog = <<>>

\* makeRegions, inner 'while True' loop: the regions reached from r along 'upper'
\* until a boundary is reached or the walk comes back into the group
RECURSIVE ChainFrom(_, _)
ChainFrom(r, acc) ==
    LET acc2 == Append(acc, r)
        nxt == getNeighbourUpper(r)
    IN  IF nxt = NoRegion \/ SeqContains(acc2, nxt)
        THEN acc2
        ELSE ChainFrom(nxt, acc2)

\* makeRegions: the for loop without its 'if lower is None: break', ending on
\* whichever region the iteration over the set ends on
GroupStartsAny == region_set

\* makeRegions, 'for region in region_set: if lower is None: break': a region of
\* region_set with no lower connection when there is one, else whichever region
\* the iteration over the set ends on
GroupStarts ==
    IF \E r \in region_set : lowerOf(r) = NoRegion
    THEN {r \in region_set : lowerOf(r) = NoRegion}
    ELSE region_set

\* One pass of 'while region_set:' in makeRegions: build one y-group
MakeYGroup ==
    /\ UNCHANGED OthersOfGeom
    /\ gpc = "makeRegions"
    /\ region_set # {}
    /\ \E r \in GroupStarts :
         LET g == ChainFrom(r, <<>>)
             members == {g[k] : k \in 1..Len(g)}
         IN  /\ \A k \in 1..Len(g) : yGroupIndex[g[k]] = NoIndex
             /\ yGroupIndex' = [q \in Regions |->
                    IF q \in members
                    THEN (CHOOSE k \in 1..Len(g) : g[k] = q) - 1
                    ELSE yGroupIndex[q]]
             /\ region_set' = region_set \ members
             /\ y_groups' = Append(y_groups, g)
    /\ UNCHANGED <<upper, dphi, gpc, gi, started, ran, zShift, walk, zlog>>

\* makeRegions returns; the caller goes on to Mesh.geometry
MakeRegionsDone ==
    /\ UNCHANGED OthersOfGeom
    /\ gpc = "makeRegions"
    /\ region_set = {}
    /\ gpc' = "fillRZ"
    /\ UNCHANGED <<upper, dphi, yGroupIndex, region_set, y_groups, gi, started, ran,
                   zShift, walk, zlog>>

\* 'for region in self.regions.values()' is exhausted after region i
PhaseLoopDoneShort(i) == i >= NRegions - 1
PhaseLoopDone(i) == i = NRegions

\* The statement that follows a loop of Mesh.geometry
NextPhase(p) ==
    IF PhaseNo(p) < Len(PhaseOrder) THEN PhaseOrder[PhaseNo(p) + 1] ELSE "done"

\* Advance the running loop of Mesh.geometry past region gi
Advance ==
    IF PhaseLoopDone(gi)
    THEN gpc' = NextPhase(gpc) /\ gi' = 1
    ELSE gpc' = gpc /\ gi' = gi + 1

\* A method of MeshRegion called from Mesh.geometry that runs to completion on
\* region gi in one go
RunOn(p) ==
    /\ gpc = p
    /\ started' = [started EXCEPT ![gi] = @ \cup {p}]
    /\ ran' = [ran EXCEPT ![gi] = @ \cup {p}]
    /\ Advance

\* region.fillRZ()
FillRZ ==
    /\ UNCHANGED OthersOfGeom
    /\ RunOn("fillRZ")
    /\ UNCHANGED <<upper, dphi, yGroupIndex, region_set, y_groups, zShift, walk, zlog>>

\* region.getRZBoundary()
GetRZBoundary ==
    /\ UNCHANGED OthersOfGeom
    /\ RunOn("getRZBoundary")
    /\ UNCHANGED <<upper, dphi, yGroupIndex, region_set, y_groups, zShift, walk, zlog>>

\* region.geometry()
RegionGeometry ==
    /\ UNCHANGED OthersOfGeom
    /\ RunOn("geometry")
    /\ UNCHANGED <<upper, dphi, yGroupIndex, region_set, y_groups, zShift, walk, zlog>>

\* region.calcZShift(), up to the first pass of its 'while True' loop:
\* returns at once unless the region has yGroupIndex 0
CalcZShiftEnter ==
    /\ UNCHANGED OthersOfGeom
    /\ gpc = "calcZShift"
    /\ walk = NoRegion
    /\ started' = [started EXCEPT ![gi] = @ \cup {"calcZShift"}]
    /\ IF yGroupIndex[gi] # 0
       THEN /\ ran' = [ran EXCEPT ![gi] = @ \cup {"calcZShift"}]
            /\ Advance
            /\ UNCHANGED <<zShift, walk>>
       ELSE /\ walk' = gi
            /\ zShift' = [zShift EXCEPT ![gi] = NewArray]
            /\ UNCHANGED <<ran, gpc, gi>>
    /\ UNCHANGED <<upper, dphi, yGroupIndex, region_set, y_groups, zlog>>

\* The zShift arrays after one pass of the 'while True' loop of calcZShift on
\* 'region': the region is integrated from its lower edge, and the upper
\* neighbour, if any, gets a new array whose lower edge is the region's upper edge
ZShiftAfterPass(region) ==
    LET hi == zShift[region].lo + dphi[region]
        integrated == [zShift EXCEPT ![region].hi = hi]
        next_region == getNeighbourUpper(region)
    IN  IF next_region = NoRegion
        THEN integrated
        ELSE LET replaced == [integrated EXCEPT ![next_region] = NewArray]
             IN  [replaced EXCEPT ![next_region].lo = replaced[region].hi]

\* One pass of the 'while True' loop of calcZShift
CalcZShiftPass ==
    /\ UNCHANGED OthersOfGeom
    /\ gpc = "calcZShift"
    /\ walk # NoRegion
    /\ Len(zlog) < MaxVisits
    /\ zShift' = ZShiftAfterPass(walk)
    /\ zlog' = Append(zlog, walk)
    /\ IF getNeighbourUpper(walk) = NoRegion
       THEN /\ walk' = NoRegion
            /\ ran' = [ran EXCEPT ![gi] = @ \cup {"calcZShift"}]
            /\ Advance
       ELSE /\ walk' = getNeighbourUpper(walk)
            /\ UNCHANGED <<ran, gpc, gi>>
    /\ UNCHANGED <<upper, dphi, yGroupIndex, region_set, y_groups, started>>

\* region.calcMetric()
CalcMetric ==
    /\ UNCHANGED OthersOfGeom
    /\ RunOn("calcMetric")
    /\ UNCHANGED <<upper, dphi, yGroupIndex, region_set, y_groups, zShift, walk, zlog>>




(***************************************************************************)
(* PsiContour: the list of points, its indices and its lazy caches         *)
(***************************************************************************)
\* The PsiContour object held in the variables
Self ==
    [points |-> points, startInd |-> startInd, endInd |-> endInd,
     extend_lower |-> extend_lower, extend_upper |-> extend_upper,
     fine_contour |-> fine_contour, distance |-> distance]

SetSelf(c) ==
    /\ points' = c.points
    /\ startInd' = c.startInd
    /\ endInd' = c.endInd
    /\ extend_lower' = c.extend_lower
    /\ extend_upper' = c.extend_upper
    /\ fine_contour' = c.fine_contour
    /\ distance' = c.distance

IsSelf(c) ==
    /\ points = c.points
    /\ startInd = c.startInd
    /\ endInd = c.endInd
    /\ extend_lower = c.extend_lower
    /\ extend_upper = c.extend_upper
    /\ fine_contour = c.fine_contour
    /\ distance = c.distance

\* PsiContour.__init__
NewPsiContour(pts) ==
    [points |-> pts, startInd |-> 0, endInd |-> Len(pts) - 1,
     extend_lower |-> 0, extend_upper |-> 0,
     fine_contour |-> "none", distance |-> "none"]

\* No contour is in use
ContParked ==
    /\ points = <<>>
    /\ startInd = 0
    /\ endInd = 0
    /\ extend_lower = 0
    /\ extend_upper = 0
    /\ fine_contour = "none"
    /\ distance = "none"
    /\ cpc = "parked"

\* A cache that a mutation left in place now holds a value computed before it
Outdated(cache) == IF cache = "none" THEN "none" ELSE "stale"

\* PsiContour.__getitem__ with Python's indexing (negative: from the end)
PyAt(s, i) == IF i >= 0 THEN s[i + 1] ELSE s[Len(s) + i + 1]
PyValid(s, i) == -Len(s) <= i /\ i < Len(s)

\* startInd.setter
setStartInd(c, val) ==
    IF c.startInd # val
    THEN [c EXCEPT !.fine_contour = "none", !.distance = "none", !.startInd = val]
    ELSE c

\* endInd.setter
setEndInd(c, val) ==
    IF c.endInd # val
    THEN [c EXCEPT !.fine_contour = "none", !.distance = "none", !.endInd = val]
    ELSE c

\* extend_lower.setter
setExtendLower(c, val) ==
    IF c.extend_lower # val
    THEN [c EXCEPT !.fine_contour = "none", !.distance = Outdated(@),
                   !.extend_lower = val]
    ELSE c

\* extend_upper.setter
setExtendUpper(c, val) ==
    IF c.extend_upper # val
    THEN [c EXCEPT !.fine_contour = "none", !.distance = Outdated(@),
                   !.extend_upper = val]
    ELSE c

\* PsiContour.append
append(c, point) ==
    [c EXCEPT !.fine_contour = "none", !.distance = "none",
              !.points = Append(@, point)]

\* PsiContour.prepend
prepend(c, point) ==
    [c EXCEPT !.fine_contour = "none", !.distance = "none",
              !.points = <<point>> \o @]

\* list.insert(index, point) for index >= 0: an index past the end appends
ListInsert(s, index, point) ==
    LET k == IF index > Len(s) THEN Len(s) ELSE index
    IN  SubSeq(s, 1, k) \o <<point>> \o SubSeq(s, k + 1, Len(s))

\* PsiContour.insert: 'Make sure index is positive'
InsertIndex(c, index) ==
    IF index < 0
    THEN (IF index + Len(c.points) < 0 THEN 0 ELSE index + Len(c.points))
    ELSE index

\* PsiContour.insert
insert(c, index0, point) ==
    LET index == InsertIndex(c, index0)
        c1 == [c EXCEPT !.distance = "none",
                        !.fine_contour = Outdated(@),
                        !.points = ListInsert(@, index, point)]
        c2 == IF index <= c1.startInd THEN setStartInd(c1, c1.startInd + 1) ELSE c1
        c3 == IF index <= c2.endInd THEN setEndInd(c2, c2.endInd + 1) ELSE c2
    IN  IF c3.endInd < 0 /\ index > Len(c3.points) + c3.endInd
        THEN setEndInd(c3, c3.endInd - 1)
        ELSE c3

\* The fine_contour property: builds the FineContour when none is cached
readFineContour(c) ==
    IF c.fine_contour = "none" THEN [c EXCEPT !.fine_contour = "fresh"] ELSE c

\* The distance property: computed from self.fine_contour when none is cached
readDistance(c) ==
    IF c.distance = "none"
    THEN LET c1 == readFineContour(c)
         IN  [c1 EXCEPT !.distance = c1.fine_contour]
    ELSE c

\* A contour of two or three points as PsiContour.__init__ leaves it
ContStart ==
    /\ \E n \in 2..3 : IsSelf(NewPsiContour([k \in 1..n |-> k]))
    /\ cpc = "contour"

\* contour.startInd = val
SetStartInd ==
    /\ cpc = "contour"
    /\ \E val \in 0..(Len(points) - 1) : SetSelf(setStartInd(Self, val))
    /\ UNCHANGED cpc
    /\ UNCHANGED OthersOfCont

\* contour.endInd = val
SetEndInd ==
    /\ cpc = "contour"
    /\ \E val \in (-Len(points))..(Len(points) - 1) : SetSelf(setEndInd(Self, val))
    /\ UNCHANGED cpc
    /\ UNCHANGED OthersOfCont

\* contour.extend_lower = val
SetExtendLower ==
    /\ cpc = "contour"
    /\ \E val \in 0..MaxExtendCells : SetSelf(setExtendLower(Self, val))
    /\ UNCHANGED cpc
    /\ UNCHANGED OthersOfCont

\* contour.extend_upper = val
SetExtendUpper ==
    /\ cpc = "contour"
    /\ \E val \in 0..MaxExtendCells : SetSelf(setExtendUpper(Self, val))
    /\ UNCHANGED cpc
    /\ UNCHANGED OthersOfCont

\* contour.append(point)
AppendPoint ==
    /\ cpc = "contour"
    /\ Len(points) < MaxLen
    /\ SetSelf(append(Self, Len(points) + 1))
    /\ UNCHANGED cpc
    /\ UNCHANGED OthersOfCont

\* contour.prepend(point)
PrependPoint ==
    /\ cpc = "contour"
    /\ Len(points) < MaxLen
    /\ SetSelf(prepend(Self, Len(points) + 1))
    /\ UNCHANGED cpc
    /\ UNCHANGED OthersOfCont

\* contour.insert(index, point)
InsertPoint ==
    /\ cpc = "contour"
    /\ Len(points) < MaxLen
    /\ \E index \in (-(Len(points) + 1))..(Len(points) + 1) :
         SetSelf(insert(Self, index, Len(points) + 1))
    /\ UNCHANGED cpc
    /\ UNCHANGED OthersOfCont

\* a read of contour.fine_contour
ReadFineContour ==
    /\ cpc = "contour"
    /\ SetSelf(readFineContour(Self))
    /\ UNCHANGED cpc
    /\ UNCHANGED OthersOfCont

\* a read of contour.distance
ReadDistance ==
    /\ cpc = "contour"
    /\ SetSelf(readDistance(Self))
    /\ UNCHANGED cpc
    /\ UNCHANGED OthersOfCont

(***************************************************************************)
(* PsiContour.refinePoint and its methods.  A point is represented by its  *)
(* residual |psi(point) - psival|, in units of refine_atol / 2; psival is  *)
(* represented by 2 * |psival|.  psi itself is an input of the program:    *)
(* every value a method reads from it is chosen freely.                    *)
(***************************************************************************)
\* PsiContour.options.refine_atol, in residual units
refine_atol == 2
\* 'count > 10' in refinePointNewton
MaxNewtonCount == 10
\* self.psival is None
NonePsival == -1

MethodNames == {"newton", "line", "integrate", "integrate+newton", "none"}

\* methods.split(","): the non-empty lists of method names up to MaxMethods long
MethodLists ==
    UNION { [1..n -> MethodNames] : n \in 1..MaxMethods }

\* abs(f) < atol * abs(self.psival): 'don't need to refine'
NoNeedToRefine(f, pv) == 2 * f < refine_atol * pv

\* refinePointNewton: abs(fnext) < atol
NewtonConvergedLoose(fnext) == fnext < 2 * refine_atol
NewtonConverged(fnext) == fnext < refine_atol

\* refinePointNewton: abs(fnext) > abs(fprev) or count > 10
NewtonDiverging(fnext, fp, c) == fnext > fp \/ c > MaxNewtonCount

\* refinePointLinesearch: the interval [0., 1.] brentq searches for snew, in
\* halves
LineParams == {0, 1, 2}

\* refinePointLinesearch: no point has been returned by the line search
NoLinePoint == <<0, 1>>

\* perpLine: pline(s) = p + 2. * (s - 0.5) * w * perpUnitVec, as the offset from
\* p along the line, a fraction <<numerator, denominator>>; s is s2 halves and
\* w is wd after h halvings
pline(s2, wd, h) == <<(s2 - 1) * wd, 2 ^ h>>

\* refinePointLinesearch: the test 'w < atol' made before the halving instead of
\* after it
LineWidthBelowAtolLate(wd, h) == wd < refine_atol * (2 ^ (h - 1))

\* refinePointLinesearch: w < atol, after h halvings of width
LineWidthBelowAtol(wd, h) == wd < refine_atol * (2 ^ h)

\* the for loop of refinePoint goes on to the next listed method
NextMethodSkip(i) == i + 2
NextMethod(i) == i + 1

RefineStart ==
    /\ methods \in MethodLists
    /\ psival \in {NonePsival} \cup (0..MaxPsival)
    /\ p_in \in 0..MaxRes
    /\ width \in 1..MaxWidth
    /\ rpc = "call"
    /\ mi = 1
    /\ fprev = 0
    /\ ncount = 0
    /\ halvings = 0
    /\ line_point = NoLinePoint
    /\ result = 0
    /\ producer = "nothing"
    /\ tried = <<>>
    /\ raisedLog = <<>>

\* refinePoint is not running
RefineParked ==
    /\ methods = <<>>
    /\ psival = NonePsival
    /\ p_in = 0
    /\ width = 1
    /\ rpc = "parked"
    /\ mi = 1
    /\ fprev = 0
    /\ ncount = 0
    /\ halvings = 0
    /\ line_point = NoLinePoint
    /\ result = 0
    /\ producer = "nothing"
    /\ tried = <<>>
    /\ raisedLog = <<>>

\* 'return ...' reaching the caller of refinePoint, from method m
ReturnPoint(r, m) ==
    /\ rpc' = "returned"
    /\ result' = r
    /\ producer' = m
    /\ UNCHANGED <<mi, raisedLog>>

\* A method raises SolutionError: 'except SolutionError: pass', next method
MethodRaises ==
    /\ rpc' = "loop"
    /\ raisedLog' = Append(raisedLog, methods[mi])
    /\ mi' = NextMethod(mi)
    /\ UNCHANGED <<result, producer>>

\* refinePointNewton(q, ...) up to its loop, called for the listed method m
NewtonEnter(q, m) ==
    IF NoNeedToRefine(q, psival)
    THEN ReturnPoint(q, m) /\ UNCHANGED <<fprev, ncount>>
    ELSE /\ rpc' = "newton"
         /\ fprev' = q
         /\ ncount' = 0
         /\ UNCHANGED <<mi, raisedLog, result, producer>>

\* refinePoint: 'if self.psival is None: return p'
RefineEnter ==
    /\ rpc = "call"
    /\ IF psival = NonePsival
       THEN ReturnPoint(p_in, "nothing")
       ELSE rpc' = "loop" /\ UNCHANGED <<mi, raisedLog, result, producer>>
    /\ UNCHANGED <<methods, psival, p_in, width, fprev, ncount, halvings, tried, line_point>>
    /\ UNCHANGED OthersOfRefine

\* refinePoint: one pass of 'for method in methods.split(",")' up to the call
\* of the method, and through it where the method returns at once
TryMethod ==
    /\ rpc = "loop"
    /\ mi <= Len(methods)
    /\ tried' = Append(tried, methods[mi])
    /\ LET m == methods[mi]
       IN  CASE m = "none" ->
                   ReturnPoint(p_in, m) /\ UNCHANGED <<fprev, ncount, halvings>>
             [] m = "newton" ->
                   NewtonEnter(p_in, m) /\ UNCHANGED halvings
             [] m = "line" ->
                   IF NoNeedToRefine(p_in, psival)
                   THEN ReturnPoint(p_in, m) /\ UNCHANGED <<fprev, ncount, halvings>>
                   ELSE /\ rpc' = "line"
                        /\ halvings' = 0
                        /\ UNCHANGED <<mi, raisedLog, result, producer, fprev, ncount>>
             [] OTHER ->
                   /\ rpc' = "integrate"
                   /\ UNCHANGED <<mi, raisedLog, result, producer, fprev, ncount,
                                  halvings>>
    /\ UNCHANGED <<methods, psival, p_in, width, line_point>>
    /\ UNCHANGED OthersOfRefine

\* One pass of the 'while True' loop of refinePointNewton
NewtonStep ==
    /\ rpc = "newton"
    /\ \E fnext \in 0..MaxRes :
         IF NewtonConverged(fnext)
         THEN ReturnPoint(fnext, methods[mi]) /\ UNCHANGED <<fprev, ncount>>
         ELSE IF NewtonDiverging(fnext, fprev, ncount)
              THEN MethodRaises /\ UNCHANGED <<fprev, ncount>>
              ELSE /\ ncount' = ncount + 1
                   /\ fprev' = fnext
                   /\ UNCHANGED <<rpc, mi, raisedLog, result, producer>>
    /\ UNCHANGED <<methods, psival, p_in, width, halvings, tried, line_point>>
    /\ UNCHANGED OthersOfRefine

\* One pass of the 'while True' loop of refinePointLinesearch: brentq either
\* returns a root on the line, which is returned, or fails to; then w is halved
LineAttempt ==
    /\ rpc = "line"
    /\ \E converged \in BOOLEAN, r \in 0..MaxRes, snew \in LineParams :
         IF converged
         THEN /\ ReturnPoint(r, methods[mi])
              /\ line_point' = pline(snew, width, halvings)
              /\ UNCHANGED halvings
         ELSE /\ halvings' = halvings + 1
              /\ IF LineWidthBelowAtol(width, halvings + 1)
                 THEN MethodRaises
                 ELSE UNCHANGED <<rpc, mi, raisedLog, result, producer>>
              /\ UNCHANGED line_point
    /\ UNCHANGED <<methods, psival, p_in, width, fprev, ncount, tried>>
    /\ UNCHANGED OthersOfRefine

\* refinePointIntegrate: solve_ivp either fails or gives result.y[:, 1]; for
\* "integrate+newton" that point is passed on to refinePointNewton
Integrate ==
    /\ rpc = "integrate"
    /\ \E success \in BOOLEAN, r \in 0..MaxRes :
         IF ~success
         THEN MethodRaises /\ UNCHANGED <<fprev, ncount>>
         ELSE IF methods[mi] = "integrate"
              THEN ReturnPoint(r, methods[mi]) /\ UNCHANGED <<fprev, ncount>>
              ELSE NewtonEnter(r, methods[mi])
    /\ UNCHANGED <<methods, psival, p_in, width, halvings, tried, line_point>>
    /\ UNCHANGED OthersOfRefine

\* refinePoint: the for loop is exhausted, 'raise SolutionError(...)'
RefineRaise ==
    /\ rpc = "loop"
    /\ mi > Len(methods)
    /\ rpc' = "raised"
    /\ UNCHANGED <<methods, psival, p_in, width, mi, fprev, ncount, halvings, result,
                   producer, tried, raisedLog, line_point>>
    /\ UNCHANGED OthersOfRefine

(***************************************************************************)
(* FineContour: the constructor, extend() and equaliseSpacing.  The        *)
(* positions are represented by the spacing error they give,               *)
(* ds_error = max |ds - mean(ds)|; what refine() and the re-sampling make  *)
(* of the positions depends on psi and is chosen freely.                   *)
(***************************************************************************)
\* finecontour_maxits=None: the option is not set
NoneMaxits == -1

\* 'self.options.finecontour_maxits and ...': None and 0 are both false
MaxitsSet == finecontour_maxits # NoneMaxits /\ finecontour_maxits # 0

\* while ds_error > self.options.finecontour_atol
SpacingOffLoose(err) == err > finecontour_atol + 1
SpacingOff(err) == err > finecontour_atol

\* if (finecontour_maxits and count > finecontour_maxits)
MaxitsExceeded == MaxitsSet /\ count > finecontour_maxits

\* count += 1
NextCountStuck(c) == c
NextCount(c) == c + 1

\* count is read only when finecontour_maxits is set; when it is not, the model
\* stops counting at MaxCount
CountAfterPass ==
    IF MaxitsSet \/ NextCount(count) <= MaxCount THEN NextCount(count) ELSE count

FineStart ==
    /\ finecontour_maxits \in {NoneMaxits} \cup (0..MaxIts)
    /\ finecontour_atol \in 1..MaxAtol
    /\ ds_error = 0
    /\ count = 1
    /\ fpc = "new"
    /\ warned = FALSE
    /\ caller = "nobody"
    /\ nextends = 0

\* No FineContour is being built
FineParked ==
    /\ finecontour_maxits = NoneMaxits
    /\ finecontour_atol = 1
    /\ ds_error = 0
    /\ count = 1
    /\ fpc = "parked"
    /\ warned = FALSE
    /\ caller = "nobody"
    /\ nextends = 0

\* FineContour.__init__ up to its last statement, self.equaliseSpacing()
FineInit ==
    /\ fpc = "new"
    /\ fpc' = "equaliseSpacing"
    /\ caller' = "__init__"
    /\ UNCHANGED <<finecontour_maxits, finecontour_atol, ds_error, count, warned,
                   nextends>>
    /\ UNCHANGED OthersOfFine

\* FineContour.extend up to its last statement, self.equaliseSpacing(reallocate=True)
FineExtend ==
    /\ fpc = "returned"
    /\ nextends < MaxExtends
    /\ nextends' = nextends + 1
    /\ fpc' = "equaliseSpacing"
    /\ caller' = "extend"
    /\ UNCHANGED <<finecontour_maxits, finecontour_atol, ds_error, count, warned>>
    /\ UNCHANGED OthersOfFine

\* equaliseSpacing up to its loop: refine (which raises SolutionError when
\* refinePoint does), calcDistance, ds_error, count = 1
EqualiseEnter ==
    /\ fpc = "equaliseSpacing"
    /\ warned' = FALSE
    /\ \E refined \in BOOLEAN, err \in 0..MaxErr :
         IF refined
         THEN fpc' = "loop" /\ ds_error' = err /\ count' = 1
         ELSE fpc' = "raised" /\ UNCHANGED <<ds_error, count>>
    /\ UNCHANGED <<finecontour_maxits, finecontour_atol, caller, nextends>>
    /\ UNCHANGED OthersOfFine

\* The while condition is false: equaliseSpacing returns
EqualiseDone ==
    /\ fpc = "loop"
    /\ ~SpacingOff(ds_error)
    /\ fpc' = "returned"
    /\ UNCHANGED <<finecontour_maxits, finecontour_atol, ds_error, count, warned,
                   caller, nextends>>
    /\ UNCHANGED OthersOfFine

\* 'warnings.warn(maximum iterations exceeded); break': equaliseSpacing returns
EqualiseWarnBreak ==
    /\ fpc = "loop"
    /\ SpacingOff(ds_error)
    /\ MaxitsExceeded
    /\ warned' = TRUE
    /\ fpc' = "returned"
    /\ UNCHANGED <<finecontour_maxits, finecontour_atol, ds_error, count, caller,
                   nextends>>
    /\ UNCHANGED OthersOfFine

\* One pass of the while loop: re-sample, refine, calcDistance, ds_error, count += 1
EqualisePass ==
    /\ fpc = "loop"
    /\ SpacingOff(ds_error)
    /\ ~MaxitsExceeded
    /\ \E refined \in BOOLEAN, err \in 0..MaxErr :
         IF refined
         THEN /\ ds_error' = err
              /\ count' = CountAfterPass
              /\ UNCHANGED fpc
         ELSE fpc' = "raised" /\ UNCHANGED <<ds_error, count>>
    /\ UNCHANGED <<finecontour_maxits, finecontour_atol, warned, caller, nextends>>
    /\ UNCHANGED OthersOfFine

(***************************************************************************)
(* MeshRegion.addPointAtWallToContours on one contour.  Positions along    *)
(* the contour are integers: the points of the contour lie on the even     *)
(* coordinates, one grid step apart, and the wall crosses the contour at   *)
(* the coordinate wallLo (lower wall) or wallHi (upper wall), which is     *)
(* even when the wall passes through a point (within self.atol) and odd    *)
(* when it passes between two points.                                      *)
(***************************************************************************)
\* max_extend = 100
max_extend == 100

\* 'lower_intersect = None': no intersection; an intersection is a one-point set
None == {}
The(s) == CHOOSE x \in s : TRUE

\* The coordinate of the k-th point of the contour before any extension; the
\* k-th point prepended by temporaryExtend is at Coord(-k)
Coord(k) == 2 * k

\* The places where the wall crosses this contour
Walls ==
    (IF lower_wall THEN {wallLo} ELSE {}) \cup (IF upper_wall THEN {wallHi} ELSE {})

\* Equilibrium.wallIntersection(p1, p2): the crossing of the wall with the
\* segment from p1 to p2, ends included, or None
wallIntersection(p1, p2) ==
    {w \in Walls : (p1 <= w /\ w <= p2) \/ (p2 <= w /\ w <= p1)}

\* EquilibriumRegion.getRegridded: the contour has 2*ny_noguards + 1 points
\* between the ends of the region, and 2*y_boundary_guards more at an end that
\* has no connection
RegriddedContour(lw, uw, g) ==
    LET lo == IF lw THEN 2 * g ELSE 0
        up == IF uw THEN 2 * g ELSE 0
        n == 2 * NyNoguards + 1 + lo + up
        c == NewPsiContour([k \in 1..n |-> Coord(k - 1)])
    IN  [c EXCEPT !.startInd = lo, !.endInd = n - 1 - up,
                  !.extend_lower = lo, !.extend_upper = up]

\* Numbers of extensions after which the wall is met: few, and around max_extend
ExtensionChoices == {1, 2, max_extend - 1, max_extend, max_extend + 1}

\* Where the lower wall may cross a contour of n points: in its lower half, or
\* below its first point, on or just above the e-th point an extension adds
LowerWallChoices(n) ==
    (0..(Coord(n \div 2) - 1))
        \cup {Coord(-e) : e \in ExtensionChoices}
        \cup {Coord(-e) + 1 : e \in ExtensionChoices}

\* Where the upper wall may cross it: in its upper half, or above its last point
UpperWallChoices(n) ==
    ((Coord(n \div 2) + 1)..Coord(n - 1))
        \cup {Coord(n - 1 + e) : e \in ExtensionChoices}
        \cup {Coord(n - 1 + e) - 1 : e \in ExtensionChoices}

WallStart ==
    /\ lower_wall \in BOOLEAN
    /\ upper_wall \in BOOLEAN
    /\ \E g \in 0..MaxGuards : IsSelf(RegriddedContour(lower_wall, upper_wall, g))
    /\ cpc = "addPointAtWallToContours"
    /\ wallLo \in (IF lower_wall THEN LowerWallChoices(Len(points)) ELSE {0})
    /\ wallHi \in (IF upper_wall THEN UpperWallChoices(Len(points)) ELSE {0})
    /\ wpc = "start"
    /\ lower_intersect = None
    /\ lower_intersect_index = 0
    /\ upper_intersect = None
    /\ upper_intersect_index = 0
    /\ wcount = 0

\* addPointAtWallToContours is not running
WallParked ==
    /\ lower_wall = FALSE
    /\ upper_wall = FALSE
    /\ wallLo = 0
    /\ wallHi = 0
    /\ wpc = "parked"
    /\ lower_intersect = None
    /\ lower_intersect_index = 0
    /\ upper_intersect = None
    /\ upper_intersect_index = 0
    /\ wcount = 0

\* PsiContour.temporaryExtend(extend_lower=1)
temporaryExtendLower(c) ==
    LET c0 == readDistance(c)
        c1 == prepend(c0, PyAt(c0.points, 0) - Coord(1))
        c2 == IF c1.startInd >= 0 THEN setStartInd(c1, c1.startInd + 1) ELSE c1
    IN  IF c2.endInd >= 0 THEN setEndInd(c2, c2.endInd + 1) ELSE c2

\* PsiContour.temporaryExtend(extend_upper=1)
temporaryExtendUpper(c) ==
    LET c0 == readDistance(c)
        c1 == append(c0, PyAt(c0.points, -1) + Coord(1))
    IN  IF c1.endInd < 0 THEN setEndInd(c1, c1.endInd - 1) ELSE c1

\* PsiContour.refine: the points are replaced by refined ones and _distance by
\* that of a new contour (None); _fine_contour is left as it is
refine(c) == [c EXCEPT !.distance = "none", !.fine_contour = Outdated(@)]

\* 'now make ..._intersect_index the index where the point at the wall is':
\* the contour and the index after the if / elif / else on calc_distance
PointAtWall(c, index, intersect) ==
    IF PyAt(c.points, index) = intersect
    THEN [c |-> c, index |-> index]
    ELSE IF PyAt(c.points, index + 1) = intersect
         THEN [c |-> c, index |-> index + 1]
         ELSE [c |-> insert(c, index + 1, intersect), index |-> index + 1]

\* assert count < max_extend
ExtendAllowed(c) == c < max_extend

\* The locals of the loop body are initialised; with a lower wall, the for loop
\* over the segments from starti down to the first
LowerSearch ==
    /\ wpc = "start"
    /\ upper_intersect' = None
    /\ upper_intersect_index' = -2
    /\ wcount' = 0
    /\ IF lower_wall
       THEN /\ LET starti == IF upper_wall THEN Len(points) \div 2
                                           ELSE Len(points) - 1
                    found == {i \in 1..starti :
                                wallIntersection(PyAt(points, i), PyAt(points, i - 1))
                                    # None}
                IN  IF found # {}
                    THEN LET i == CHOOSE k \in found : \A j \in found : j <= k
                         IN  /\ lower_intersect' =
                                   wallIntersection(PyAt(points, i), PyAt(points, i - 1))
                             /\ lower_intersect_index' = i - 1
                    ELSE lower_intersect' = None /\ lower_intersect_index' = 0
            /\ wpc' = "lowerWhile"
       ELSE /\ lower_intersect' = None
            /\ lower_intersect_index' = 0
            /\ wpc' = "upperSearch"
    /\ UNCHANGED <<contVars, lower_wall, upper_wall, wallLo, wallHi>>
    /\ UNCHANGED OthersOfWall

\* One pass of 'while lower_intersect is None'
LowerExtend ==
    /\ wpc = "lowerWhile"
    /\ lower_intersect = None
    /\ LET c == temporaryExtendLower(Self)
       IN  /\ SetSelf(c)
           /\ lower_intersect' = wallIntersection(PyAt(c.points, 1), PyAt(c.points, 0))
    /\ wcount' = wcount + 1
    /\ wpc' = IF ExtendAllowed(wcount + 1) THEN "lowerWhile" ELSE "AssertionError"
    /\ UNCHANGED <<cpc, lower_wall, upper_wall, wallLo, wallHi, lower_intersect_index,
                   upper_intersect, upper_intersect_index>>
    /\ UNCHANGED OthersOfWall

\* 'while lower_intersect is None' ends
LowerFound ==
    /\ wpc = "lowerWhile"
    /\ lower_intersect # None
    /\ wpc' = "upperSearch"
    /\ UNCHANGED <<contVars, lower_wall, upper_wall, wallLo, wallHi, lower_intersect,
                   lower_intersect_index, upper_intersect, upper_intersect_index, wcount>>
    /\ UNCHANGED OthersOfWall

\* 'if upper_wall:' up to the while loop.  With a lower wall as well, starti is
\* len(contour//2): PsiContour has no '//', a TypeError
UpperSearch ==
    /\ wpc = "upperSearch"
    /\ IF ~upper_wall
       THEN /\ wpc' = "addPoints"
            /\ UNCHANGED <<upper_intersect, upper_intersect_index, wcount>>
       ELSE IF lower_wall
            THEN /\ wpc' = "TypeError"
                 /\ UNCHANGED <<upper_intersect, upper_intersect_index, wcount>>
            ELSE LET starti == 0
                     found == {i \in starti..(Len(points) - 2) :
                                 wallIntersection(PyAt(points, i), PyAt(points, i + 1))
                                     # None}
                 IN  /\ IF found # {}
                        THEN LET i == CHOOSE k \in found : \A j \in found : k <= j
                             IN  /\ upper_intersect' =
                                      wallIntersection(PyAt(points, i), PyAt(points, i + 1))
                                 /\ upper_intersect_index' = i
                        ELSE UNCHANGED <<upper_intersect, upper_intersect_index>>
                     /\ wcount' = 0
                     /\ wpc' = "upperWhile"
    /\ UNCHANGED <<contVars, lower_wall, upper_wall, wallLo, wallHi, lower_intersect,
                   lower_intersect_index>>
    /\ UNCHANGED OthersOfWall

\* One pass of 'while upper_intersect is None'
UpperExtend ==
    /\ wpc = "upperWhile"
    /\ upper_intersect = None
    /\ LET c == temporaryExtendUpper(Self)
       IN  /\ SetSelf(c)
           /\ upper_intersect' = wallIntersection(PyAt(c.points, -2), PyAt(c.points, -1))
    /\ wcount' = wcount + 1
    /\ wpc' = IF ExtendAllowed(wcount + 1) THEN "upperWhile" ELSE "AssertionError"
    /\ UNCHANGED <<cpc, lower_wall, upper_wall, wallLo, wallHi, lower_intersect,
                   lower_intersect_index, upper_intersect_index>>
    /\ UNCHANGED OthersOfWall

\* 'while upper_intersect is None' ends
UpperFound ==
    /\ wpc = "upperWhile"
    /\ upper_intersect # None
    /\ wpc' = "addPoints"
    /\ UNCHANGED <<contVars, lower_wall, upper_wall, wallLo, wallHi, lower_intersect,
                   lower_intersect_index, upper_intersect, upper_intersect_index, wcount>>
    /\ UNCHANGED OthersOfWall

\* 'now add points on the wall(s) to the contour', to the end of the loop body:
\* the lower wall point and startInd, the upper wall point and endInd, refine
AddWallPoints ==
    /\ wpc = "addPoints"
    /\ LET atLower == IF lower_wall
                    THEN PointAtWall(readDistance(Self), lower_intersect_index,
                                     The(lower_intersect))
                    ELSE [c |-> Self, index |-> lower_intersect_index]
           c1 == IF lower_wall
                 THEN setStartInd(readDistance(atLower.c), atLower.index)
                 ELSE Self
           corrected == IF lower_wall
                        THEN upper_intersect_index + 1
                        ELSE upper_intersect_index
           atUpper == IF upper_wall
                    THEN PointAtWall(readDistance(c1), corrected, The(upper_intersect))
                    ELSE [c |-> c1, index |-> upper_intersect_index]
           c2 == IF upper_wall THEN setEndInd(atUpper.c, atUpper.index) ELSE c1
       IN  /\ SetSelf(refine(c2))
           /\ lower_intersect_index' = atLower.index
           /\ upper_intersect_index' = atUpper.index
    /\ wpc' = "done"
    /\ UNCHANGED <<cpc, lower_wall, upper_wall, wallLo, wallHi, lower_intersect,
                   upper_intersect, wcount>>
    /\ UNCHANGED OthersOfWall

(***************************************************************************)
(* EquilibriumRegion: the spacing laws                                     *)
(* (src/hypnotoad/core/equilibrium.py)                                     *)
(*                                                                         *)
(* Mesh.makeRegions calls EquilibriumRegion.getRegridded once per radial   *)
(* segment of an equilibrium region.  Each call builds the spacing         *)
(* function s(i) with getSfuncFixedSpacing, which checks it with           *)
(* _checkMonotonic, and then samples it in PsiContour.getRegridded at the  *)
(* indices -extend_lower .. 2*ny_noguards + extend_upper.                  *)
(*                                                                         *)
(* A spacing function is held as the name of the law that made it; its     *)
(* values are computed exactly, in units of 1/(N^3 * N_norm) where         *)
(* N = 2*ny_noguards is the argument N of the laws.  Modelled are the      *)
(* branch of getSqrtPoloidalDistanceFunc without sqrt coefficients         *)
(* (b_lower and b_upper None), the convex branch of                        *)
(* getMonotonicPoloidalDistanceFunc (the other branch solves for its       *)
(* coefficients with brentq), and combineSfuncs as getSfuncFixedSpacing    *)
(* calls it: on the region itself, with sfunc_orthogonal = None and no     *)
(* wall surface.                                                           *)
(***************************************************************************)
PoloidalSpacingMethods == {"sqrt", "monotonic"}

NonorthogonalSpacingMethods ==
    {"orthogonal", "fixed_poloidal", "poloidal_orthogonal_combined",
     "fixed_perp_lower", "fixed_perp_upper", "perp_orthogonal_combined", "combined"}

\* The argument N of the laws: npoints - 1 with npoints = 2*ny_noguards + 1
SfuncN == 2 * NyNoguards

\* getMonotonicPoloidalDistanceFunc takes its convex branch
\*   not (length < 0.5*(d_upper + d_lower)*N/N_norm - 1.0e-8*length)
MonotonicConvex(len, dl, du, nn) == ~(2 * len * nn < (du + dl) * SfuncN)

\* getMonotonicPoloidalDistanceFunc, convex branch: with iN = i/N_norm,
\*   s = d_lower*iN                        for i < 0
\*   s = length + d_upper*(i - N)/N_norm   for i > N
\*   s = a/3*iN^3 + b/2*iN^2 + c*iN        otherwise,
\* a = 3*(d_upper + d_lower)*(N_norm/N)^2 - 6*length*(N_norm/N)^3,
\* b = (d_upper - d_lower)*N_norm/N - a*N/N_norm, c = d_lower;
\* the value returned here is s * N^3 * N_norm
getMonotonicPoloidalDistanceFunc(i, len, dl, du, nn) ==
    IF i < 0 THEN dl * SfuncN * SfuncN * SfuncN * i
    ELSE IF i > SfuncN
         THEN (len * nn + du * (i - SfuncN)) * SfuncN * SfuncN * SfuncN
         ELSE ((du + dl) * SfuncN - 2 * len * nn) * i * i * i
              + (3 * len * SfuncN * nn - (du + 2 * dl) * SfuncN * SfuncN) * i * i
              + dl * SfuncN * SfuncN * SfuncN * i

\* getSqrtPoloidalDistanceFunc with b_lower = b_upper = None:
\*   lambda i: i * length / N        (here times N^3 * N_norm)
getSqrtPoloidalDistanceFunc(i, len, nn) == i * len * SfuncN * SfuncN * nn

\* s(i) of the spacing function made by a law
sfuncValue(law, i) ==
    IF law = "sqrt"
    THEN getSqrtPoloidalDistanceFunc(i, total_distance, N_norm)
    ELSE getMonotonicPoloidalDistanceFunc(i, total_distance, d_lower, d_upper, N_norm)

\* _checkMonotonic: indices = arange(-self.extend_lower,
\* 2*ny_noguards + self.extend_upper + 1)
CheckedIndices == (0 - region_extend_lower)..(2 * NyNoguards + region_extend_upper)

\* numpy.any(scheck[1:] < scheck[:-1])
checkMonotonicRaises(law) ==
    \E i \in CheckedIndices :
        i + 1 \in CheckedIndices /\ sfuncValue(law, i + 1) < sfuncValue(law, i)

\* combineSfuncs(self, None): sfunc_fixed_lower and sfunc_fixed_upper are both
\* getSfuncFixedSpacing(..., method="monotonic"), and with sorth = None
\* new_sfunc is  wl*m + wu*m + (1 - wl - wu)*(wl*m + wu*m)/(wl + wu) = m
combineSfuncs == "monotonic"

\* getSfuncFixedSpacing: the law of the function it returns, "ValueError" for
\* the 'Unrecognized option' error
RECURSIVE getSfuncFixedSpacing(_)
getSfuncFixedSpacing(method) ==
    IF method = "sqrt" THEN "sqrt"
    ELSE IF method = "monotonic" THEN "monotonic"
    ELSE IF method = "nonorthogonal"
    THEN IF nonorthogonal_spacing_method = "poloidal_orthogonal_combined"
         THEN combineSfuncs
         ELSE IF nonorthogonal_spacing_method = "perp_orthogonal_combined"
         THEN combineSfuncs
         ELSE IF nonorthogonal_spacing_method = "combined"
         THEN combineSfuncs
         ELSE IF nonorthogonal_spacing_method = "orthogonal"
         THEN getSfuncFixedSpacing(poloidal_spacing_method)
         ELSE getSfuncFixedSpacing(nonorthogonal_spacing_method)
    ELSE "ValueError"

\* method=None: poloidal_spacing_method if orthogonal else "nonorthogonal"
DefaultMethod == IF orthogonal THEN poloidal_spacing_method ELSE "nonorthogonal"

\* the spacing function of one getRegridded call, or the error it raises:
\* every law's function goes through _checkMonotonic before it is returned
RegridSfunc ==
    LET law == getSfuncFixedSpacing(DefaultMethod)
    IN  IF law = "ValueError" THEN "ValueError"
        ELSE IF checkMonotonicRaises(law) THEN "ValueError"
        ELSE law

\* extend_lower / extend_upper of EquilibriumRegion.getRegridded
GuardExtension(atBoundary) == IF atBoundary THEN 2 * y_boundary_guards ELSE 0

NotChecked == <<0, -1>>
NoS == <<>>

SfuncStart ==
    /\ orthogonal \in BOOLEAN
    /\ poloidal_spacing_method \in PoloidalSpacingMethods
    /\ nonorthogonal_spacing_method \in NonorthogonalSpacingMethods
    /\ y_boundary_guards \in 0..MaxGuards
    /\ total_distance \in 1..MaxDistance
    /\ d_lower \in (0 - 1)..MaxSpacing
    /\ d_upper \in (0 - 1)..MaxSpacing
    /\ N_norm \in 1..MaxNnorm
    /\ MonotonicConvex(total_distance, d_lower, d_upper, N_norm)
    /\ region_extend_lower = 0
    /\ region_extend_upper = 0
    /\ radialIndex = 0
    /\ checked = NotChecked
    /\ s_regrid = NoS
    /\ spc = "makeRegions"

SfuncParked ==
    /\ orthogonal = TRUE
    /\ poloidal_spacing_method = "sqrt"
    /\ nonorthogonal_spacing_method = "combined"
    /\ y_boundary_guards = 0
    /\ total_distance = 1
    /\ d_lower = 1
    /\ d_upper = 1
    /\ N_norm = 1
    /\ region_extend_lower = 0
    /\ region_extend_upper = 0
    /\ radialIndex = 0
    /\ checked = NotChecked
    /\ s_regrid = NoS
    /\ spc = "parked"

SfuncOptions == <<orthogonal, poloidal_spacing_method, nonorthogonal_spacing_method,
                  y_boundary_guards, total_distance, d_lower, d_upper, N_norm>>

\* EquilibriumRegion.getRegridded(radialIndex=i) returning: the spacing
\* function passed _checkMonotonic on the indices the region had then,
\* PsiContour.getRegridded sets extend_lower / extend_upper and samples it
GetRegridded ==
    /\ spc = "makeRegions"
    /\ radialIndex < NSegments
    /\ RegridSfunc # "ValueError"
    /\ \E lowerNone \in BOOLEAN, upperNone \in BOOLEAN :
         LET el == GuardExtension(lowerNone)
             eu == GuardExtension(upperNone)
         IN  /\ region_extend_lower' = el
             /\ region_extend_upper' = eu
             /\ s_regrid' = [i \in (0 - el)..(2 * NyNoguards + eu) |->
                                sfuncValue(RegridSfunc, i)]
    /\ checked' = <<0 - region_extend_lower, 2 * NyNoguards + region_extend_upper>>
    /\ radialIndex' = radialIndex + 1
    /\ spc' = "makeRegions"
    /\ UNCHANGED <<SfuncOptions, OthersOfSfunc>>

\* EquilibriumRegion.getRegridded raising ValueError out of
\* getSfuncFixedSpacing: unrecognized method, or _checkMonotonic
GetRegriddedRaise ==
    /\ spc = "makeRegions"
    /\ radialIndex < NSegments
    /\ RegridSfunc = "ValueError"
    /\ spc' = "ValueError"
    /\ UNCHANGED <<SfuncOptions, region_extend_lower, region_extend_upper, radialIndex,
                   checked, s_regrid, OthersOfSfunc>>

\* the loop over the segments of the region is over
SegmentsDone ==
    /\ spc = "makeRegions"
    /\ radialIndex = NSegments
    /\ spc' = "done"
    /\ UNCHANGED <<SfuncOptions, region_extend_lower, region_extend_upper, radialIndex,
                   checked, s_regrid, OthersOfSfunc>>

(***************************************************************************)
(* MeshRegion.distributePointsNonorthogonal (src/mesh.py)                  *)
(*                                                                         *)
(* For every contour of the region the method binds 'sfunc' according to   *)
(* user_options.nonorthogonal_spacing_method and passes it to              *)
(* contour.regrid.  The model follows what 'sfunc' is bound to: a          *)
(* "function", the "tuple" (function, function) that                       *)
(* getSfuncFixedPerpSpacing returns, or the exception raised on the way.   *)
(* The values of the functions are not followed here; whether the          *)
(* _checkMonotonic inside combineSfuncs passes is an input of each step.   *)
(***************************************************************************)
UnknownMethod == "unknown"

\* surface_vec(lower): None (poloidal spacing on a separatrix contour
\* without wall surface) or a vector
surface_vec(contour_is_separatrix, lower) ==
    IF contour_is_separatrix
    THEN IF lower
         THEN IF wallSurfaceAtStart THEN "vector" ELSE "None"
         ELSE IF wallSurfaceAtEnd THEN "vector" ELSE "None"
    ELSE "vector"

\* getSfuncFixedPerpSpacing(N, contour, surface_direction, lower):
\* interpSSperp reads vec[1], vec[0]; the return value is the pair
\* (lambda i: s_of_sperp(sperp_func(i)), sperp_func)
getSfuncFixedPerpSpacing(surface_direction) ==
    IF surface_direction = "None" THEN "TypeError" ELSE "tuple"

\* combineSfuncs(contour, sfunc_orthogonal, vec_lower, vec_upper): the
\* combined function, or the ValueError of _checkMonotonic
combineSfuncsOn(decreasing) ==
    IF decreasing THEN "ValueError: decreasing" ELSE "function"

\* the if/elif chain that binds sfunc
ContourSfunc(contour_is_separatrix, decreasing) ==
    IF nonorthogonal_spacing_method = "orthogonal" THEN "function"
    ELSE IF nonorthogonal_spacing_method = "fixed_poloidal"
    THEN IF getSfuncFixedSpacing("polynomial") = "ValueError"
         THEN "ValueError: Unrecognized option"
         ELSE "function"
    ELSE IF nonorthogonal_spacing_method = "poloidal_orthogonal_combined"
    THEN combineSfuncsOn(decreasing)
    ELSE IF nonorthogonal_spacing_method = "fixed_perp_lower"
    THEN getSfuncFixedPerpSpacing(surface_vec(contour_is_separatrix, TRUE))
    ELSE IF nonorthogonal_spacing_method = "fixed_perp_upper"
    THEN getSfuncFixedPerpSpacing(surface_vec(contour_is_separatrix, FALSE))
    ELSE IF nonorthogonal_spacing_method = "perp_orthogonal_combined"
    THEN combineSfuncsOn(decreasing)
    ELSE IF nonorthogonal_spacing_method = "combined"
    THEN combineSfuncsOn(decreasing)
    ELSE "ValueError: Unrecognized option"

\* contour.regrid(..., sfunc=sfunc): PsiContour.getRegridded calls
\* sfunc(indices)
RegridWith(sfunc) ==
    IF sfunc = "function" THEN "regridded"
    ELSE IF sfunc = "tuple" THEN "TypeError"
    ELSE sfunc

DistributeStart ==
    /\ orthogonal = FALSE
    /\ poloidal_spacing_method \in PoloidalSpacingMethods
    /\ nonorthogonal_spacing_method \in NonorthogonalSpacingMethods \cup {UnknownMethod}
    /\ y_boundary_guards = 0
    /\ total_distance = 1
    /\ d_lower = 1
    /\ d_upper = 1
    /\ N_norm = 1
    /\ region_extend_lower = 0
    /\ region_extend_upper = 0
    /\ radialIndex = 0
    /\ checked = NotChecked
    /\ s_regrid = NoS
    /\ spc = "parked"
    /\ wallSurfaceAtStart \in BOOLEAN
    /\ wallSurfaceAtEnd \in BOOLEAN
    /\ i_contour = 0
    /\ sfunc_log = <<>>
    /\ dpc = "loop"

DistributeParked ==
    /\ wallSurfaceAtStart = FALSE
    /\ wallSurfaceAtEnd = FALSE
    /\ i_contour = 0
    /\ sfunc_log = <<>>
    /\ dpc = "parked"

\* one pass of the loop body that ends with the contour regridded
DistributeContour ==
    /\ dpc = "loop"
    /\ i_contour < NContours
    /\ \E contour_is_separatrix \in BOOLEAN, decreasing \in BOOLEAN :
         LET sfunc == ContourSfunc(contour_is_separatrix, decreasing)
         IN  /\ RegridWith(sfunc) = "regridded"
             /\ sfunc_log' = Append(sfunc_log, sfunc)
    /\ i_contour' = i_contour + 1
    /\ dpc' = "loop"
    /\ UNCHANGED <<wallSurfaceAtStart, wallSurfaceAtEnd, sfuncVars, OthersOfDistribute>>

\* one pass of the loop body that ends with an exception
DistributeRaise ==
    /\ dpc = "loop"
    /\ i_contour < NContours
    /\ \E contour_is_separatrix \in BOOLEAN, decreasing \in BOOLEAN :
         LET sfunc == ContourSfunc(contour_is_separatrix, decreasing)
         IN  /\ RegridWith(sfunc) # "regridded"
             /\ dpc' = RegridWith(sfunc)
    /\ UNCHANGED <<wallSurfaceAtStart, wallSurfaceAtEnd, i_contour, sfunc_log,
                   sfuncVars, OthersOfDistribute>>

\* the loop over self.contours is over
DistributeDone ==
    /\ dpc = "loop"
    /\ i_contour = NContours
    /\ dpc' = "done"
    /\ UNCHANGED <<wallSurfaceAtStart, wallSurfaceAtEnd, i_contour, sfunc_log,
                   sfuncVars, OthersOfDistribute>>

(***************************************************************************)
(* MeshRegion.fillRZ and MeshRegion.getRZBoundary (src/mesh.py)            *)
(*                                                                         *)
(* Four regions <<x, y>>: two radial segments x of each of two             *)
(* equilibrium regions y that follow each other poloidally.  Every region  *)
(* traces its own 2*nx + 1 = 3 contours in MeshRegion.__init__             *)
(* (followPerpendicular, then refine), so the position a region holds for  *)
(* a grid point is the exact position plus the numerical error of that     *)
(* region's own contour.  A value of the model is this error: two regions  *)
(* hold the same R for a shared grid point exactly when the values are     *)
(* equal; 0 is the exact position.  Z is treated by the code exactly as R. *)
(***************************************************************************)
RZRegions == {<<1, 1>>, <<1, 2>>, <<2, 1>>, <<2, 2>>}

\* outcomes of tracing a contour: the error of its points
TraceValues == {0, 1}

NoNeighbour == <<0, 0>>

\* connections['upper'] / getNeighbour('upper')
rzUpper(r) ==
    IF r[2] = 1 THEN <<r[1], 2>>
    ELSE IF periodic_y THEN <<r[1], 1>> ELSE NoNeighbour

\* connections['outer']
rzOuter(r) == IF r[1] = 1 THEN <<2, r[2]>> ELSE NoNeighbour

\* xPointsAtStart[radialIndex + row], xPointsAtEnd[radialIndex + row] is not
\* None; row 0 is the inner edge of the region and row 1 its outer edge.  The
\* X-point lies between the two radial segments, at the end of the first
\* equilibrium region and the start of the second.
xPointAtStart(r, row) == xpoint_between /\ r[2] = 2 /\ r[1] + row = 2
xPointAtEnd(r, row) == xpoint_between /\ r[2] = 1 /\ r[1] + row = 2

NotFilled == [col \in {"first", "last"} |-> 0 - 1]
NoCorners == [row \in {0, 1} |-> NotFilled]

\* fillRZ: ylow from the odd contour, corners from the even contours, then
\* the X-point corners replaced by the X-point position
ylowOf(e) == [col \in {"first", "last"} |-> e[2]]

cornersOf(r, e) ==
    [row \in {0, 1} |->
        [col \in {"first", "last"} |->
            IF col = "first" /\ xPointAtStart(r, row) THEN 0
            ELSE IF col = "last" /\ xPointAtEnd(r, row) THEN 0
            ELSE e[2 * row + 1]]]

RZStart ==
    /\ periodic_y \in BOOLEAN
    /\ xpoint_between \in BOOLEAN
    /\ Rxy_ylow = [r \in RZRegions |-> NotFilled]
    /\ Rxy_corners = [r \in RZRegions |-> NoCorners]
    /\ filled = {}
    /\ matched = {}

RZParked ==
    /\ periodic_y = FALSE
    /\ xpoint_between = FALSE
    /\ Rxy_ylow = [r \in RZRegions |-> NotFilled]
    /\ Rxy_corners = [r \in RZRegions |-> NoCorners]
    /\ filled = RZRegions
    /\ matched = RZRegions

\* region.fillRZ() of one region of the first loop of Mesh.geometry
RegionFillRZ ==
    /\ filled # RZRegions
    /\ \E r \in RZRegions \ filled, e \in [1..3 -> TraceValues] :
         /\ Rxy_ylow' = [Rxy_ylow EXCEPT ![r] = ylowOf(e)]
         /\ Rxy_corners' = [Rxy_corners EXCEPT ![r] = cornersOf(r, e)]
         /\ filled' = filled \cup {r}
    /\ UNCHANGED <<periodic_y, xpoint_between, matched, OthersOfRZ>>

\* region.getRZBoundary() of one region of the second loop, with an upper
\* neighbour
RegionGetRZBoundary ==
    /\ filled = RZRegions
    /\ \E r \in RZRegions \ matched :
         /\ rzUpper(r) # NoNeighbour
         /\ Rxy_ylow' = [Rxy_ylow EXCEPT ![r]["last"] = Rxy_ylow[rzUpper(r)]["first"]]
         /\ Rxy_corners' =
                [Rxy_corners EXCEPT
                    ![r] = [row \in {0, 1} |->
                               [@[row] EXCEPT
                                   !["last"] = Rxy_corners[rzUpper(r)][row]["first"]]]]
         /\ matched' = matched \cup {r}
    /\ UNCHANGED <<periodic_y, xpoint_between, filled, OthersOfRZ>>

\* region.getRZBoundary() of a region whose upper end is a boundary
RegionGetRZBoundaryNone ==
    /\ filled = RZRegions
    /\ \E r \in RZRegions \ matched :
         /\ rzUpper(r) = NoNeighbour
         /\ matched' = matched \cup {r}
    /\ UNCHANGED <<periodic_y, xpoint_between, Rxy_ylow, Rxy_corners, filled, OthersOfRZ>>

(***************************************************************************)
(* BoutMesh: construction, geometry() and writeGridfile()                  *)
(***************************************************************************)

CurvatureTypes == {"curl(b/B)", "bxkappa", "other"}

\* lists of cell counts: entries alternate between two counts
CellLists(maxlen) ==
    {[k \in 1..len |-> IF k % 2 = 1 THEN a ELSE b] :
        len \in 1..maxlen, a \in CellCounts, b \in CellCounts}

\* sum(s[:k])
RECURSIVE sumFirst(_, _)
sumFirst(s, k) == IF k = 0 THEN 0 ELSE sumFirst(s, k - 1) + s[k]

\* numpy.cumsum([0] + list(options.nx)); entry i of the code is entry i+1 here
cumsum0(s) == [i \in 1..(Len(s) + 1) |-> sumFirst(s, i - 1)]

\* number of MeshRegions: one per equilibrium region and radial segment
NumMeshRegions == Len(eq_ny_noguards) * Len(options_nx)

RZFields == {"Rxy", "Zxy"}

GeometryFields ==
    {"psixy", "dx", "dy", "Brxy", "Bzxy", "Bpxy", "Btxy", "Bxy", "hy", "dphidy"}

MetricFields ==
    {"I", "ShiftTorsion", "g11", "g22", "g33", "g12", "g13", "g23", "J",
     "g_11", "g_22", "g_33", "g_12", "g_13", "g_23"}

BxcvFields == {"bxcvx", "bxcvy", "bxcvz"}

\* the names BoutMesh.geometry passes to addFromRegions, in order
OutputNames ==
    <<"Rxy", "Zxy", "psixy", "dx", "dy", "Brxy", "Bzxy", "Bpxy", "Btxy", "Bxy",
      "hy", "dphidy", "ShiftTorsion", "zShift">>
    \o (IF shiftedmetric THEN <<>> ELSE <<"sinty">>)
    \o <<"g11", "g22", "g33", "g12", "g13", "g23", "J",
         "g_11", "g_22", "g_33", "g_12", "g_13", "g_23",
         "curl_bOverB_x", "curl_bOverB_y", "curl_bOverB_z",
         "bxcvx", "bxcvy", "bxcvz">>

NoFields == <<>>
NoFile == <<>>

GridStart ==
    /\ shiftedmetric \in BOOLEAN
    /\ curvature_type \in CurvatureTypes
    /\ user_guards \in 0..MaxGuards
    /\ options_nx \in CellLists(MaxXSegments)
    /\ nx_compatible \in BOOLEAN
    /\ eq_ny_noguards \in CellLists(MaxYRegions)
    /\ wall_ends \in WallEnds
    /\ separatrix_radial_index \in SeparatrixIndices
    /\ regions_built = 0
    /\ nx = 0 /\ ny = 0 /\ ny_noguards = 0
    /\ x_startinds = <<>> /\ y_regions_noguards = <<>>
    /\ region_arrays = <<>> /\ region_floats = <<>>
    /\ metric_index = 0
    /\ fields_to_output = NoFields
    /\ file_created = FALSE
    /\ gridfile = NoFile
    /\ bpc = "Mesh.__init__"
    /\ berror = "none"

\* no BoutMesh is being built; the options are those handed to the regions
GridIdle ==
    /\ user_guards = 0
    /\ options_nx = <<>> /\ nx_compatible = TRUE /\ eq_ny_noguards = <<>>
    /\ wall_ends = 0 /\ separatrix_radial_index = 0 /\ regions_built = 0
    /\ nx = 0 /\ ny = 0 /\ ny_noguards = 0
    /\ x_startinds = <<>> /\ y_regions_noguards = <<>>
    /\ region_arrays = <<>> /\ region_floats = <<>>
    /\ metric_index = 0 /\ fields_to_output = NoFields
    /\ file_created = FALSE /\ gridfile = NoFile
    /\ bpc = "parked" /\ berror = "none"

GridParked == shiftedmetric = TRUE /\ curvature_type = "bxkappa" /\ GridIdle

GridOptions ==
    <<shiftedmetric, curvature_type, user_guards, options_nx, nx_compatible,
      eq_ny_noguards, wall_ends, separatrix_radial_index>>

\* Mesh.__init__ (first statement of BoutMesh.__init__): makeRegions builds every
\* MeshRegion, each tracing, refining and distributing its contours
MeshInit ==
    /\ bpc = "Mesh.__init__"
    /\ regions_built' = NumMeshRegions
    /\ region_arrays' = [r \in 1..NumMeshRegions |-> {}]
    /\ region_floats' = [r \in 1..NumMeshRegions |-> {}]
    /\ bpc' = "BoutMesh.__init__"
    /\ UNCHANGED <<GridOptions, nx, ny, ny_noguards, x_startinds,
                   y_regions_noguards, metric_index, fields_to_output,
                   file_created, gridfile, berror, OthersOfGrid>>

\* the rest of BoutMesh.__init__: global sizes, then the x-sizing assertion
BoutMeshInit ==
    /\ bpc = "BoutMesh.__init__"
    /\ nx' = sumFirst(options_nx, Len(options_nx))
    /\ ny' = sumFirst(eq_ny_noguards, Len(eq_ny_noguards)) + wall_ends * user_guards
    /\ ny_noguards' = sumFirst(eq_ny_noguards, Len(eq_ny_noguards))
    /\ IF nx_compatible
          THEN /\ x_startinds' = cumsum0(options_nx)
               /\ y_regions_noguards' = eq_ny_noguards
               /\ bpc' = "constructed"
               /\ UNCHANGED berror
          ELSE /\ bpc' = "failed"
               /\ berror' = "AssertionError: x-grid sizes"
               /\ UNCHANGED <<x_startinds, y_regions_noguards>>
    /\ UNCHANGED <<GridOptions, regions_built, region_arrays, region_floats,
                   metric_index, fields_to_output, file_created, gridfile,
                   OthersOfGrid>>

\* Mesh.geometry up to its last loop: fillRZ, getRZBoundary, geometry and
\* calcZShift in every region
MeshGeometry ==
    /\ bpc = "constructed"
    /\ region_arrays' =
          [r \in 1..NumMeshRegions |-> RZFields \cup GeometryFields \cup {"zShift"}]
    /\ metric_index' = 1
    /\ bpc' = "calcMetric"
    /\ UNCHANGED <<GridOptions, regions_built, nx, ny, ny_noguards, x_startinds,
                   y_regions_noguards, region_floats, fields_to_output,
                   file_created, gridfile, berror, OthersOfGrid>>

\* what calc_curvature leaves behind: "ok", or the exception it raises
calc_curvature ==
    IF curvature_type = "curl(b/B)" THEN "AttributeError: curl_bOverB_x"
    ELSE IF curvature_type = "bxkappa" THEN "ok"
    ELSE "ValueError: Unrecognized option for curvature type"

\* calcMetric without its shiftedmetric test: the metric is computed whatever
\* the option says
RegionCalcMetricUnguarded ==
    /\ bpc = "calcMetric"
    /\ region_arrays' =
          [region_arrays EXCEPT ![metric_index] =
              @ \cup MetricFields \cup (IF shiftedmetric THEN {} ELSE {"sinty"})]
    /\ IF calc_curvature = "ok"
          THEN /\ region_floats' =
                     [region_floats EXCEPT ![metric_index] = BxcvFields]
               /\ metric_index' = metric_index + 1
               /\ bpc' = IF metric_index = NumMeshRegions
                            THEN "addFromRegions" ELSE "calcMetric"
               /\ UNCHANGED berror
          ELSE /\ bpc' = "failed"
               /\ berror' = calc_curvature
               /\ UNCHANGED <<region_floats, metric_index>>
    /\ UNCHANGED <<GridOptions, regions_built, nx, ny, ny_noguards, x_startinds,
                   y_regions_noguards, fields_to_output, file_created, gridfile,
                   OthersOfGrid>>

\* MeshRegion.calcMetric in region metric_index, calc_curvature included
RegionCalcMetric ==
    /\ bpc = "calcMetric"
    /\ IF ~shiftedmetric
          THEN /\ bpc' = "failed"
               /\ berror' = "ValueError: shiftedmetric == False not handled"
               /\ UNCHANGED <<region_arrays, region_floats, metric_index>>
          ELSE /\ region_arrays' =
                     [region_arrays EXCEPT ![metric_index] = @ \cup MetricFields]
               /\ IF calc_curvature = "ok"
                     THEN /\ region_floats' =
                                [region_floats EXCEPT ![metric_index] = BxcvFields]
                          /\ metric_index' = metric_index + 1
                          /\ bpc' = IF metric_index = NumMeshRegions
                                       THEN "addFromRegions" ELSE "calcMetric"
                          /\ UNCHANGED berror
                     ELSE /\ bpc' = "failed"
                          /\ berror' = calc_curvature
                          /\ UNCHANGED <<region_floats, metric_index>>
    /\ UNCHANGED <<GridOptions, regions_built, nx, ny, ny_noguards, x_startinds,
                   y_regions_noguards, fields_to_output, file_created, gridfile,
                   OthersOfGrid>>

\* addFromRegions(name) works when every region holds a MultiLocationArray 'name'
Collectable(name) == \A r \in 1..NumMeshRegions : name \in region_arrays[r]

\* the addFromRegions calls of BoutMesh.geometry, up to the first that raises
AddFromRegions ==
    /\ bpc = "addFromRegions"
    /\ LET bad == {k \in 1..Len(OutputNames) : ~Collectable(OutputNames[k])}
       IN  IF bad = {}
              THEN /\ fields_to_output' = OutputNames
                   /\ bpc' = "geometry returned"
                   /\ UNCHANGED berror
              ELSE LET k == CHOOSE i \in bad : \A j \in bad : i <= j
                   IN  /\ fields_to_output' = SubSeq(OutputNames, 1, k)
                       /\ bpc' = "failed"
                       /\ berror' =
                             IF OutputNames[k] \in region_floats[1]
                                THEN "AttributeError: float has no attributes"
                                ELSE "KeyError"
    /\ UNCHANGED <<GridOptions, regions_built, nx, ny, ny_noguards, x_startinds,
                   y_regions_noguards, region_arrays, region_floats, metric_index,
                   file_created, gridfile, OthersOfGrid>>

\* writeGridfile: what is written before the topology indices
FileHeader ==
    [nx |-> nx, ny |-> ny_noguards, y_boundary_guards |-> user_guards,
     curvature_type |-> curvature_type, Bt_axis |-> "Bt_axis"]
    @@ [name \in {fields_to_output[k] : k \in DOMAIN fields_to_output} |-> "array"]

\* writeGridfile: branches on len(self.x_startinds)
TooManySeparatrices == Len(x_startinds) > 3

ixseps1 ==
    IF Len(x_startinds) = 1
       THEN (IF separatrix_radial_index = 0 THEN 0 - 1 ELSE nx)
       ELSE x_startinds[2]

ixseps2_radial ==
    IF Len(x_startinds) = 1
       THEN (IF separatrix_radial_index = 0 THEN 0 - 1 ELSE nx)
    ELSE IF Len(x_startinds) = 2 THEN nx
    ELSE x_startinds[3]

\* writeGridfile: branches on len(self.y_regions_noguards)
NumYRegions == Len(y_regions_noguards)

jyseps1_1 ==
    IF NumYRegions = 1 THEN 0 - 1 ELSE y_regions_noguards[1] - 1

jyseps2_1 ==
    IF NumYRegions \in {1, 3} THEN ny \div 2
    ELSE IF NumYRegions = 4 THEN jyseps1_1
    ELSE sumFirst(y_regions_noguards, 2) - 1

ny_inner ==
    IF NumYRegions \in {1, 3} THEN ny \div 2
    ELSE IF NumYRegions = 4 THEN sumFirst(y_regions_noguards, 2)
    ELSE sumFirst(y_regions_noguards, 3)

jyseps2_2 ==
    IF NumYRegions = 1 THEN ny
    ELSE IF NumYRegions = 3 THEN sumFirst(y_regions_noguards, 2) - 1
    ELSE IF NumYRegions = 4 THEN sumFirst(y_regions_noguards, 3) - 1
    ELSE sumFirst(y_regions_noguards, 5) - 1

jyseps1_2 ==
    IF NumYRegions \in {1, 3} THEN ny \div 2
    ELSE IF NumYRegions = 4 THEN jyseps2_2
    ELSE sumFirst(y_regions_noguards, 4) - 1

ixseps2 ==
    IF NumYRegions = 4 THEN ixseps1
    ELSE IF NumYRegions = 6 /\ ixseps2_radial = nx THEN ixseps1
    ELSE ixseps2_radial

TopologyIndices ==
    [ixseps1 |-> ixseps1, ixseps2 |-> ixseps2, jyseps1_1 |-> jyseps1_1,
     jyseps2_1 |-> jyseps2_1, ny_inner |-> ny_inner, jyseps1_2 |-> jyseps1_2,
     jyseps2_2 |-> jyseps2_2]

FileTrailer ==
    [parallel_transform |-> IF shiftedmetric THEN "shiftedmetric" ELSE "identity",
     hypnotoad_inputs |-> "options", hypnotoad_git_hash |-> "hash",
     hypnotoad_git_diff |-> "diff"]

\* BoutMesh.writeGridfile called on the constructed mesh
WriteGridfile ==
    /\ bpc = "constructed"
    /\ file_created' = TRUE
    /\ IF TooManySeparatrices
          THEN /\ gridfile' = FileHeader
               /\ berror' = "ValueError: More than two separatrices"
               /\ bpc' = "failed"
       ELSE IF NumYRegions \in {2, 5}
          THEN /\ gridfile' = FileHeader
               /\ berror' = "ValueError: Unrecognized topology"
               /\ bpc' = "failed"
       ELSE IF NumYRegions \notin {1, 3, 4, 6}
          THEN /\ gridfile' = FileHeader
                               @@ [ixseps1 |-> ixseps1, ixseps2 |-> ixseps2_radial]
               /\ berror' = "UnboundLocalError: jyseps1_1"
               /\ bpc' = "failed"
       ELSE /\ gridfile' = FileHeader @@ TopologyIndices @@ FileTrailer
            /\ bpc' = "written"
            /\ UNCHANGED berror
    /\ UNCHANGED <<GridOptions, regions_built, nx, ny, ny_noguards, x_startinds,
                   y_regions_noguards, region_arrays, region_floats, metric_index,
                   fields_to_output, OthersOfGrid>>

(***************************************************************************)
(* MeshRegion.geometry (field direction) and calcMetric (Jacobian check),  *)
(* at one location of one region.  Values are exact fractions <<n, d>>.    *)
(***************************************************************************)

Abs(x) == IF x < 0 THEN 0 - x ELSE x

RECURSIVE GCD(_, _)
GCD(a, b) == IF b = 0 THEN a ELSE GCD(b, a % b)

\* the fraction n/d in lowest terms with a positive denominator
Rat(n, d) ==
    LET g == GCD(Abs(n), Abs(d))
        s == IF d < 0 THEN 0 - 1 ELSE 1
    IN  <<(s * n) \div g, (s * d) \div g>>

RatInt(n) == <<n, 1>>
RatAdd(x, y) == Rat(x[1] * y[2] + y[1] * x[2], x[2] * y[2])
RatSub(x, y) == Rat(x[1] * y[2] - y[1] * x[2], x[2] * y[2])
RatMul(x, y) == Rat(x[1] * y[1], x[2] * y[2])
RatDiv(x, y) == Rat(x[1] * y[2], x[2] * y[1])
RatAbs(x) == <<Abs(x[1]), x[2]>>
RatLess(x, y) == x[1] * y[2] < y[1] * x[2]
RatSquare(x) == RatMul(x, x)

\* numpy.sqrt of a fraction whose terms are perfect squares
ISqrt(n) == CHOOSE k \in 0..n : k * k = n
RatSqrt(x) == <<ISqrt(x[1]), ISqrt(x[2])>>

FieldValues == {1, 2}
RelativeErrors == {<<0, 1>>, <<1, 200>>, <<1, 20>>, <<1, 5>>}
Tolerances == {<<1, 100>>, <<1, 10>>}
NoValue == <<0, 1>>

\* geometry(): dphidy = hy * Btxy / (Bpxy * Rxy)
dphidy == Rat(hy * Btxy, Bpxy * Rxy)

\* calcMetric with I = 0 (shifted metric)
integrated_shear == RatInt(0)
g11 == RatInt((Rxy * Bpxy) * (Rxy * Bpxy))
g22 == Rat(1, hy * hy)
g33 == RatAdd(RatAdd(RatMul(integrated_shear, g11),
                     RatSquare(RatDiv(dphidy, RatInt(hy)))),
              Rat(1, Rxy * Rxy))
g12 == RatInt(0)
g13 == RatSub(RatInt(0), RatMul(integrated_shear, g11))
g23 == RatSub(RatInt(0), RatDiv(dphidy, RatInt(hy * hy)))

\* g11*g22*g33 + 2*g12*g13*g23 - g11*g23**2 - g22*g13**2 - g33*g12**2
detg ==
    RatSub(RatSub(RatSub(RatAdd(RatMul(RatMul(g11, g22), g33),
                                RatMul(RatInt(2), RatMul(RatMul(g12, g13), g23))),
                         RatMul(g11, RatSquare(g23))),
                  RatMul(g22, RatSquare(g13))),
           RatMul(g33, RatSquare(g12)))

\* 1./numpy.sqrt(det g), with its rounding error
OneOverSqrtG ==
    RatMul(RatDiv(RatInt(1), RatSqrt(detg)), RatAdd(RatInt(1), sqrt_error))

\* a Jacobian test that accepts every value
JacobianCheckSkipped(j, jcheck) == TRUE

\* numpy.abs(J - Jcheck) / numpy.abs(J) < geometry_rtol
JacobianCheck(j, jcheck) ==
    RatLess(RatDiv(RatAbs(RatSub(j, jcheck)), RatAbs(j)), geometry_rtol)

MetricStart ==
    /\ psi_decreasing \in BOOLEAN
    /\ Bp_dot_grady \in {0 - 1, 0, 1}
    /\ Bp_magnitude \in FieldValues
    /\ Rxy \in FieldValues
    /\ Btxy \in {0 - 1, 1}
    /\ hy \in FieldValues
    /\ at_xpoint \in BOOLEAN
    /\ sqrt_error \in RelativeErrors
    /\ geometry_rtol \in Tolerances
    /\ bpsign = 0 /\ Bpxy = 0
    /\ J = NoValue /\ one_over_sqrt_g = NoValue /\ Jcheck = NoValue
    /\ mpc = "geometry" /\ merror = "none"

MetricParked ==
    /\ psi_decreasing = FALSE /\ Bp_dot_grady = 0 /\ Bp_magnitude = 1
    /\ Rxy = 1 /\ Btxy = 1 /\ hy = 1 /\ at_xpoint = FALSE
    /\ sqrt_error = NoValue /\ geometry_rtol = NoValue
    /\ bpsign = 0 /\ Bpxy = 0
    /\ J = NoValue /\ one_over_sqrt_g = NoValue /\ Jcheck = NoValue
    /\ mpc = "parked" /\ merror = "none"

MetricInputs ==
    <<psi_decreasing, Bp_dot_grady, Bp_magnitude, Rxy, Btxy, hy, at_xpoint,
      sqrt_error, geometry_rtol>>

\* MeshRegion.geometry: bpsign from the order of psi_vals, the direction of Bp
\* from Bp . Grad(y), and the test that the two agree
DirectionGeometry ==
    /\ mpc = "geometry"
    /\ bpsign' = IF psi_decreasing THEN 0 - 1 ELSE 1
    /\ IF Bp_dot_grady < 0
          THEN /\ Bpxy' = 0 - Bp_magnitude
               /\ IF bpsign' > 0
                     THEN mpc' = "failed" /\ merror' = "ValueError: Sign of Bp"
                     ELSE mpc' = "calcMetric" /\ UNCHANGED merror
          ELSE /\ Bpxy' = Bp_magnitude
               /\ IF bpsign' < 0
                     THEN mpc' = "failed" /\ merror' = "ValueError: Sign of Bp"
                     ELSE mpc' = "calcMetric" /\ UNCHANGED merror
    /\ UNCHANGED <<MetricInputs, J, one_over_sqrt_g, Jcheck, OthersOfMetric>>

\* MeshRegion.calcMetric: the metric, J, the Jacobian check and calc_curvature
JacobianCalcMetric ==
    /\ mpc = "calcMetric"
    /\ IF ~shiftedmetric
          THEN /\ mpc' = "failed"
               /\ merror' = "ValueError: shiftedmetric == False not handled"
               /\ UNCHANGED <<J, one_over_sqrt_g, Jcheck>>
          ELSE /\ J' = Rat(hy, Bpxy)
               /\ one_over_sqrt_g' = OneOverSqrtG
               /\ Jcheck' = IF at_xpoint THEN J'
                            ELSE RatMul(RatInt(bpsign), OneOverSqrtG)
               /\ IF ~JacobianCheck(J', Jcheck')
                     THEN mpc' = "failed" /\ merror' = "AssertionError: Jacobian"
                  ELSE IF calc_curvature # "ok"
                     THEN mpc' = "failed" /\ merror' = calc_curvature
                  ELSE mpc' = "done" /\ UNCHANGED merror
    /\ UNCHANGED <<MetricInputs, bpsign, Bpxy, OthersOfMetric>>

(***************************************************************************)
(* MultiLocationArray: which of its four locations hold an array           *)
(***************************************************************************)

Locations == {"centre", "xlow", "ylow", "corners"}

\* the two arrays the operations are applied to
ArrayNames == {"f", "g"}

NoOperands == <<>>

ArrayStart ==
    /\ materialised = [x \in ArrayNames |-> {}]
    /\ assigned = [x \in ArrayNames |-> {}]
    /\ operands = NoOperands
    /\ ufunc_result = {}
    /\ ufunc_error = "none"

ArrayParked ==
    /\ materialised = <<>> /\ assigned = <<>> /\ operands = NoOperands
    /\ ufunc_result = {} /\ ufunc_error = "parked"

\* the property setter: x.<loc> = value
SetLocation(x, loc) ==
    /\ ufunc_error # "parked"
    /\ loc \notin assigned[x]
    /\ materialised' = [materialised EXCEPT ![x] = @ \cup {loc}]
    /\ assigned' = [assigned EXCEPT ![x] = @ \cup {loc}]
    /\ UNCHANGED <<operands, ufunc_result, ufunc_error, OthersOfArray>>

\* the property getter: reading x.<loc> creates a zero array when there is none
GetLocation(x, loc) ==
    /\ ufunc_error # "parked"
    /\ loc \notin materialised[x]
    /\ materialised' = [materialised EXCEPT ![x] = @ \cup {loc}]
    /\ UNCHANGED <<assigned, operands, ufunc_result, ufunc_error, OthersOfArray>>

\* x.__array_ufunc__ for a binary ufunc with inputs (x, y): the locations
\* computed are those of x, and the ufunc is handed y._<loc>_array as it is
ArrayUfunc(x, y) ==
    /\ ufunc_error # "parked"
    /\ operands' = <<materialised[x], materialised[y]>>
    /\ IF materialised[x] \subseteq materialised[y]
          THEN ufunc_result' = materialised[x] /\ ufunc_error' = "none"
          ELSE ufunc_result' = {} /\ ufunc_error' = "TypeError"
    /\ UNCHANGED <<materialised, assigned, OthersOfArray>>

(***************************************************************************)
(* FineContour: __init__, extend and reverse                               *)
(*                                                                         *)
(* A position is the place of the point along the contour in units of the  *)
(* fine spacing: 0 .. Nfine-1 is the contour itself, anything else is a    *)
(* guard-cell extension.  Distances are floating-point numbers with        *)
(* MantissaBits binary digits, rounded to nearest, ties to even.           *)
(***************************************************************************)

\* spacing of the representable numbers around x
RECURSIVE Quantum(_)
Quantum(x) == IF x < 2^MantissaBits THEN 1 ELSE 2 * Quantum(x \div 2)

\* the floating-point number nearest to x >= 0
Float(x) ==
    LET q == Quantum(x)
        lo == (x \div q) * q
        r == x - lo
    IN  IF 2 * r < q THEN lo
        ELSE IF 2 * r > q THEN lo + q
        ELSE IF (lo \div q) % 2 = 0 THEN lo ELSE lo + q

\* s[::-1]
Reversed(s) == [i \in 1..Len(s) |-> s[Len(s) + 1 - i]]

\* calcDistance: zeros, then distance[1:] = cumsum of the segment lengths
RECURSIVE cumsumDistance(_, _)
cumsumDistance(pts, k) ==
    IF k = 1 THEN <<0>>
    ELSE LET d == cumsumDistance(pts, k - 1)
         IN  Append(d, Float(d[k - 1] + ds_fine * Abs(pts[k] - pts[k - 1])))

calcDistance(pts) == cumsumDistance(pts, Len(pts))

\* numpy.linspace(-extend_lower_fine, Nfine - 1 + extend_upper_fine, ...)
indices_fine(el, eu) == [i \in 1..(Nfine + el + eu) |-> i - 1 - el]

\* the point is part of a guard-cell extension
IsExtension(s) == s < 0 \/ s > Nfine - 1

FineSpacings == {1, 3}
ParentLengths == {Nfine, 2 * Nfine}
NoContour == <<>>

ReverseStart ==
    /\ n_input \in ParentLengths
    /\ parent_extend_lower \in 0..MaxParentExtend
    /\ parent_extend_upper \in 0..MaxParentExtend
    /\ ds_fine \in FineSpacings
    /\ extend_lower_fine = 0 /\ extend_upper_fine = 0
    /\ positions = <<>> /\ fine_startInd = 0 /\ fine_endInd = 0
    /\ fine_distance = <<>>
    /\ before_reverse = NoContour /\ reversals = 0 /\ fine_calls = 0
    /\ fine_pc = "construct"

ReverseParked ==
    /\ n_input = 0 /\ parent_extend_lower = 0 /\ parent_extend_upper = 0
    /\ ds_fine = 0 /\ extend_lower_fine = 0 /\ extend_upper_fine = 0
    /\ positions = <<>> /\ fine_startInd = 0 /\ fine_endInd = 0
    /\ fine_distance = <<>>
    /\ before_reverse = NoContour /\ reversals = 0 /\ fine_calls = 0
    /\ fine_pc = "parked"

FineInputs == <<n_input, parent_extend_lower, parent_extend_upper, ds_fine>>

\* the fields reverse() rewrites
FineSnapshot ==
    [positions |-> positions, distance |-> fine_distance,
     startInd |-> fine_startInd, endInd |-> fine_endInd]

\* FineContour.__init__, equaliseSpacing included
FineContourInit ==
    /\ fine_pc = "construct"
    /\ LET el == (2 * (parent_extend_lower * Nfine)) \div n_input
           eu == (2 * (parent_extend_upper * Nfine)) \div n_input
       IN  /\ extend_lower_fine' = el
           /\ extend_upper_fine' = eu
           /\ positions' = indices_fine(el, eu)
           /\ fine_startInd' = el
           /\ fine_endInd' = Nfine - 1 + el
           /\ fine_distance' = calcDistance(indices_fine(el, eu))
    /\ fine_pc' = "ready"
    /\ UNCHANGED <<FineInputs, before_reverse, reversals, fine_calls,
                   OthersOfReverse>>

\* new_positions of extend(): the old points with extend_lower points
\* extrapolated before the first and extend_upper after the last
ExtendedPositions(el, eu) ==
    LET n == Len(positions)
        first_step == positions[2] - positions[1]
        last_step == positions[n] - positions[n - 1]
    IN  [i \in 1..(n + el + eu) |->
            IF i <= el THEN positions[1] - (el + 1 - i) * first_step
            ELSE IF i <= el + n THEN positions[i - el]
            ELSE positions[n] + (i - el - n) * last_step]

\* FineContour.extend(extend_lower=el, extend_upper=eu), equaliseSpacing included
FineContourExtend(el, eu) ==
    /\ fine_pc = "ready"
    /\ fine_calls < MaxFineCalls
    /\ el + eu > 0
    /\ extend_lower_fine' = extend_lower_fine + el
    /\ extend_upper_fine' = extend_upper_fine + eu
    /\ positions' = ExtendedPositions(el, eu)
    /\ fine_startInd' = extend_lower_fine'
    /\ fine_endInd' = Nfine - 1 + extend_lower_fine'
    /\ fine_distance' = calcDistance(positions')
    /\ before_reverse' = NoContour
    /\ reversals' = 0
    /\ fine_calls' = fine_calls + 1
    /\ UNCHANGED <<FineInputs, fine_pc, OthersOfReverse>>

\* FineContour.reverse
FineContourReverse ==
    /\ fine_pc = "ready"
    /\ fine_calls < MaxFineCalls
    /\ LET n == Len(positions)
       IN  /\ fine_distance' =
                 [i \in 1..n |-> Float(fine_distance[n] - fine_distance[n + 1 - i])]
           /\ positions' = Reversed(positions)
           /\ fine_startInd' = n - 1 - fine_endInd
           /\ fine_endInd' = n - 1 - fine_startInd
    /\ before_reverse' = IF reversals = 1 THEN before_reverse ELSE FineSnapshot
    /\ reversals' = IF reversals = 1 THEN 2 ELSE 1
    /\ fine_calls' = fine_calls + 1
    /\ UNCHANGED <<FineInputs, extend_lower_fine, extend_upper_fine, fine_pc,
                   OthersOfReverse>>

(***************************************************************************)
(* Equilibrium.wallIntersection and find_intersections.  Points are pairs  *)
(* <<R, Z>>; the wall and the segment have integer coordinates and the     *)
(* crossings are exact fractions, so the rounding the tolerances absorb    *)
(* is absent and the tolerances only need to be below the smallest         *)
(* difference of two coordinates.                                          *)
(***************************************************************************)
\* intersect_tolerance = 1.0e-14, on the scale of this model's coordinates
intersect_tolerance == <<1, 1000>>

\* find_intersections: '>= 1.0e-15', the slopes differ: the lines are not parallel
parallel_tolerance == <<1, 10000>>

GridCoords == {0, 1, 2}
GridPoints == GridCoords \X GridCoords

\* self.wall: a square, a triangle, a straight two-vertex wall, a square with a
\* repeated vertex, and a wall that passes through the vertex <<1, 1>> twice
WallShapes ==
    { <<<<0, 0>>, <<2, 0>>, <<2, 2>>, <<0, 2>>>>,
      <<<<0, 0>>, <<2, 0>>, <<1, 2>>>>,
      <<<<1, 0>>, <<1, 2>>>>,
      <<<<0, 0>>, <<2, 0>>, <<2, 0>>, <<2, 2>>, <<0, 2>>>>,
      <<<<0, 0>>, <<1, 1>>, <<0, 2>>, <<2, 2>>, <<1, 1>>, <<2, 0>>>> }

\* inds_a (1): abs(dR1) > abs(dZ1); inds_b (2): abs(dR1) <= abs(dZ1).  The same
\* test on l2 chooses the branch of find_intersections
LineKind(P, Q) == IF Abs(P[1] - Q[1]) > Abs(P[2] - Q[2]) THEN 1 ELSE 2

\* numpy.argsort(..., axis=1) / swap_points: the two ends sorted in coordinate k
SortedEnds(P, Q, k) == IF P[k] <= Q[k] THEN <<P, Q>> ELSE <<Q, P>>

RatLeq(x, y) == ~RatLess(y, x)

\* 'cross >= lo - intersect_tolerance and cross <= hi + intersect_tolerance'
InRange(x, lo, hi) ==
    /\ RatLeq(RatSub(RatInt(lo), intersect_tolerance), x)
    /\ RatLeq(x, RatAdd(RatInt(hi), intersect_tolerance))

\* a point with coordinate u equal to cu and the other coordinate equal to cv
MkPoint(u, cu, cv) == IF u = 1 THEN <<cu, cv>> ELSE <<cv, cu>>

\* The wall line and l2 are both steeper in the same coordinate u ('a' lines
\* when abs(dR2) > abs(dZ2), 'b' lines otherwise): parallel lines are dropped,
\* the u of the crossing is found from the two slopes and kept if it is in the
\* range of both.  A division 0/0 gives nan, which fails every comparison.
\* line1 says which line the other coordinate is computed on
AlignedCross(lo, hi, s, e, u, v, line1) ==
    LET du1 == hi[u] - lo[u]
        dv1 == hi[v] - lo[v]
        du2 == e[u] - s[u]
        dv2 == e[v] - s[v]
    IN  IF du1 = 0 \/ du2 = 0 THEN <<>>
        ELSE LET s1 == Rat(dv1, du1)
                 s2 == Rat(dv2, du2)
             IN  IF RatLess(RatAbs(RatSub(s1, s2)), parallel_tolerance) THEN <<>>
                 ELSE LET ucross ==
                              RatDiv(RatSub(RatAdd(RatInt(s[v] - lo[v]),
                                                   RatMul(s1, RatInt(lo[u]))),
                                            RatMul(s2, RatInt(s[u]))),
                                     RatSub(s1, s2))
                          vcross ==
                              IF line1
                              THEN RatAdd(RatInt(lo[v]),
                                          RatMul(s1, RatSub(ucross, RatInt(lo[u]))))
                              ELSE RatAdd(RatInt(s[v]),
                                          RatMul(s2, RatSub(ucross, RatInt(s[u]))))
                      IN  IF InRange(ucross, lo[u], hi[u]) /\ InRange(ucross, s[u], e[u])
                          THEN <<MkPoint(u, ucross, vcross)>>
                          ELSE <<>>

\* The wall line is steeper in v and l2 in u ('b' lines when abs(dR2) >
\* abs(dZ2), 'a' lines otherwise): the wall line is sorted in v
MixedCross(lo, hi, s, e, u, v) ==
    LET du1 == hi[u] - lo[u]
        dv1 == hi[v] - lo[v]
        du2 == e[u] - s[u]
        dv2 == e[v] - s[v]
    IN  IF dv1 = 0 \/ du2 = 0 THEN <<>>
        ELSE LET k1 == Rat(du1, dv1)
                 s2 == Rat(dv2, du2)
                 ucross ==
                     RatDiv(RatAdd(RatInt(lo[u]),
                                   RatMul(k1, RatSub(RatInt(s[v] - lo[v]),
                                                     RatMul(s2, RatInt(s[u]))))),
                            RatSub(RatInt(1), RatMul(k1, s2)))
                 vcross == RatAdd(RatInt(s[v]), RatMul(s2, RatSub(ucross, RatInt(s[u]))))
             IN  IF InRange(vcross, lo[v], hi[v]) /\ InRange(ucross, s[u], e[u])
                 THEN <<MkPoint(u, ucross, vcross)>>
                 ELSE <<>>

\* The crossing, if any, that find_intersections reports for the wall line from
\* P to Q and the line l2 from p to q
LineCross(P, Q, p, q) ==
    LET u == LineKind(p, q)
        v == 3 - u
        l2 == SortedEnds(p, q, u)
    IN  IF LineKind(P, Q) = u
        THEN LET l1 == SortedEnds(P, Q, u)
             IN  AlignedCross(l1[1], l1[2], l2[1], l2[2], u, v, u = 1)
        ELSE LET l1 == SortedEnds(P, Q, v)
             IN  MixedCross(l1[1], l1[2], l2[1], l2[2], u, v)

\* Rintersect_a / Rintersect_b: the crossings with the lines of one kind, in the
\* order of the lines
RECURSIVE CrossingsOfKind(_, _, _, _, _)
CrossingsOfKind(l1array, p, q, kind, i) ==
    IF i >= Len(l1array) THEN <<>>
    ELSE (IF LineKind(l1array[i], l1array[i + 1]) = kind
          THEN LineCross(l1array[i], l1array[i + 1], p, q)
          ELSE <<>>) \o CrossingsOfKind(l1array, p, q, kind, i + 1)

\* find_intersections(l1array, l2start, l2end): numpy.concatenate of the 'a' and
\* the 'b' crossings; <<>> stands for None
find_intersections(l1array, l2start, l2end) ==
    CrossingsOfKind(l1array, l2start, l2end, 1, 1)
        \o CrossingsOfKind(l1array, l2start, l2end, 2, 1)

\* 'abs(intersect.R - second_intersect.R) < intersect_tolerance and
\*  abs(intersect.Z - second_intersect.Z) < intersect_tolerance'
SamePoint(x, y) ==
    /\ RatLess(RatAbs(RatSub(x[1], y[1])), intersect_tolerance)
    /\ RatLess(RatAbs(RatSub(x[2], y[2])), intersect_tolerance)

NoIntersect == <<>>

IntersectStart ==
    /\ wall \in WallShapes
    /\ seg_start \in GridPoints
    /\ seg_end \in GridPoints
    /\ intersects = <<>>
    /\ wall_intersect = NoIntersect
    /\ ipc = "call"
    /\ ierror = ""

\* wallIntersection is not running
IntersectParked ==
    /\ wall = <<>>
    /\ seg_start = <<0, 0>>
    /\ seg_end = <<0, 0>>
    /\ intersects = <<>>
    /\ wall_intersect = NoIntersect
    /\ ipc = "parked"
    /\ ierror = ""

\* Equilibrium.wallIntersection(p1, p2)
WallIntersection ==
    /\ ipc = "call"
    /\ LET closed_wall == wall \o <<wall[1]>>
           found == find_intersections(closed_wall, seg_start, seg_end)
       IN  /\ intersects' = found
           /\ IF Len(found) = 0
              THEN /\ wall_intersect' = NoIntersect
                   /\ ipc' = "returned"
                   /\ ierror' = ""
              ELSE IF ~(Len(found) < 3)
                   THEN /\ ierror' = "too many intersections with wall"
                        /\ ipc' = "raised"
                        /\ UNCHANGED wall_intersect
                   ELSE IF Len(found) > 1 /\ ~SamePoint(found[1], found[2])
                        THEN /\ ierror' = "Multiple intersections with wall found"
                             /\ ipc' = "raised"
                             /\ UNCHANGED wall_intersect
                        ELSE /\ wall_intersect' = <<found[1]>>
                             /\ ipc' = "returned"
                             /\ ierror' = ""
    /\ UNCHANGED <<wall, seg_start, seg_end>>
    /\ UNCHANGED OthersOfIntersect

(***************************************************************************)
(* PsiContour.insertFindPosition.  Points are pairs <<R, Z>> of integers;  *)
(* a distance is kept as its square, which orders distances as sqrt does.  *)
(***************************************************************************)
\* calc_distance(p1, p2), squared
SqDistance(p1, p2) == (p2[1] - p1[1]) ^ 2 + (p2[2] - p1[2]) ^ 2

\* numpy.argmin(d): the first index (from 0) of the smallest entry
ArgMin(d) ==
    (CHOOSE i \in 1..Len(d) :
        /\ \A j \in 1..Len(d) : d[i] <= d[j]
        /\ \A j \in 1..(i - 1) : d[j] > d[i]) - 1

\* 'elif d[minind - 1] > d[minind + 1]' with the comparison turned round
InsertAfterNearestSwapped(d, minind) == PyAt(d, minind - 1) < PyAt(d, minind + 1)

\* 'elif d[minind - 1] > d[minind + 1]': the point goes after the nearest point
InsertAfterNearest(d, minind) == PyAt(d, minind - 1) > PyAt(d, minind + 1)

\* PsiContour.insertFindPosition(point): the contour afterwards and the index
\* returned
insertFindPosition(c, pt) ==
    LET d == [i \in 1..Len(c.points) |-> SqDistance(pt, c.points[i])]
        minind == ArgMin(d)
        n == Len(c.points)
    IN  IF SqDistance(pt, PyAt(c.points, minind)) < refine_atol ^ 2
        THEN [c |-> c, index |-> minind]
        ELSE IF minind = 0 /\ PyAt(d, 1) > SqDistance(PyAt(c.points, 0), PyAt(c.points, 1))
        THEN [c |-> prepend(c, pt), index |-> 0]
        ELSE IF minind = 0
        THEN [c |-> insert(c, 1, pt), index |-> 1]
        ELSE IF minind = n - 1
                 /\ PyAt(d, -2) > SqDistance(PyAt(c.points, -1), PyAt(c.points, -2))
        THEN [c |-> append(c, pt), index |-> minind + 1]
        ELSE IF minind = n - 1
        THEN [c |-> insert(c, minind, pt), index |-> minind]
        ELSE IF InsertAfterNearest(d, minind)
        THEN [c |-> insert(c, minind + 1, pt), index |-> minind + 1]
        ELSE [c |-> insert(c, minind, pt), index |-> minind]

\* the places of the contour's points, at least refine_atol apart
ContourCoords == {0, 2, 4}
ContourPlaces == ContourCoords \X ContourCoords

\* the places of the inserted point
PointCoords == {0, 1, 2, 3, 4}

ContourLengths == {2, 3, 4}

\* contours that do not pass through a place twice
OpenContours ==
    UNION {{s \in [1..n -> ContourPlaces] : \A i, j \in 1..n : i # j => s[i] # s[j]}
           : n \in ContourLengths}


FindStart ==
    /\ \E s \in OpenContours : psi_contour = NewPsiContour(s) /\ contour_before = s
    /\ new_point \in PointCoords \X PointCoords
    /\ found_index = NoIndex
    /\ fppc = "call"

\* insertFindPosition is not running
FindParked ==
    /\ psi_contour = NewPsiContour(<<>>)
    /\ contour_before = <<>>
    /\ new_point = <<0, 0>>
    /\ found_index = NoIndex
    /\ fppc = "parked"

\* contour.insertFindPosition(point)
InsertFindPosition ==
    /\ fppc = "call"
    /\ LET r == insertFindPosition(psi_contour, new_point)
       IN  /\ psi_contour' = r.c
           /\ found_index' = r.index
    /\ fppc' = "returned"
    /\ UNCHANGED <<contour_before, new_point>>
    /\ UNCHANGED OthersOfFind

(***************************************************************************)
(* Mesh.makeRegions: the groups that connect in x, built before the        *)
(* groups that connect in y (MakeYGroup).  Mesh.__init__ numbers the       *)
(* MeshRegions consecutively, equilibrium region by equilibrium region and *)
(* radial segment by radial segment.                                       *)
(***************************************************************************)
\* the lists of nSegments that give NRegions MeshRegions
SegmentLists ==
    {s \in UNION {[1..n -> 1..NRegions] : n \in 1..NRegions} :
        sumFirst(s, Len(s)) = NRegions}

\* region_lookup: the first MeshRegion of each equilibrium region
FirstSegments == {sumFirst(nSegments, n - 1) + 1 : n \in 1..Len(nSegments)}

\* EquilibriumRegion.__init__: c["inner"] = (self.name, i - 1) if i > 0
innerOf(r) == IF r \in FirstSegments THEN NoRegion ELSE r - 1

\* EquilibriumRegion.__init__: c["outer"] = (self.name, i + 1) if i < nSegments - 1
outerOf(r) == IF r = NRegions \/ (r + 1) \in FirstSegments THEN NoRegion ELSE r + 1

\* makeRegions, inner 'while True' loop of the x groups: the regions reached
\* from r along 'outer' until a boundary is reached or the walk comes back
RECURSIVE XChainFrom(_, _)
XChainFrom(r, acc) ==
    LET acc2 == Append(acc, r)
        nxt == outerOf(r)
    IN  IF nxt = NoRegion \/ SeqContains(acc2, nxt)
        THEN acc2
        ELSE XChainFrom(nxt, acc2)

\* 'if region.connections['inner'] is None: break' looking at 'outer' instead
XGroupStartsOuter ==
    IF \E r \in x_region_set : outerOf(r) = NoRegion
    THEN {r \in x_region_set : outerOf(r) = NoRegion}
    ELSE x_region_set

\* makeRegions, 'for region in region_set: if region.connections['inner'] is
\* None: break': a region with no inner connection when there is one, else
\* whichever region the iteration over the set ends on
XGroupStarts ==
    IF \E r \in x_region_set : innerOf(r) = NoRegion
    THEN {r \in x_region_set : innerOf(r) = NoRegion}
    ELSE x_region_set

GroupsStart ==
    /\ nSegments \in SegmentLists
    /\ x_region_set = Regions
    /\ x_groups = <<>>

\* makeRegions is not building x groups
GroupsParked ==
    /\ nSegments = <<NRegions>>
    /\ x_region_set = {}
    /\ x_groups = <<>>

\* One pass of the first 'while region_set:' of makeRegions: build one x group
MakeXGroup ==
    /\ gpc = "makeRegions"
    /\ x_region_set # {}
    /\ \E r \in XGroupStarts :
         LET g == XChainFrom(r, <<>>)
             members == {g[k] : k \in 1..Len(g)}
         IN  /\ members \subseteq x_region_set
             /\ x_region_set' = x_region_set \ members
             /\ x_groups' = Append(x_groups, g)
    /\ UNCHANGED nSegments
    /\ UNCHANGED OthersOfGroups

(***************************************************************************)
(* MeshRegion.globalXInd, as MeshRegion.__init__ assigns it to the         *)
(* 2*nx + 1 contours of each radial segment of one equilibrium region.     *)
(* radialIndex and the local index i count from 0 as in the code; entry k  *)
(* of a list of the code is entry k + 1 here.                              *)
(***************************************************************************)
\* lst[start:stop] for 0 <= start, 0 <= stop: the entries start .. stop - 1
PySlice(lst, start, stop) ==
    LET hi == IF stop > Len(lst) THEN Len(lst) ELSE stop
    IN  [k \in 1..(IF hi > start THEN hi - start ELSE 0) |-> lst[start + k]]

\* lst[start:stop:-1] for 0 <= start, 0 <= stop: the entries start, start - 1,
\* ..., stop + 1, where a start past the end is moved to the last entry
PySliceBack(lst, start, stop) ==
    LET from == IF start >= Len(lst) THEN Len(lst) - 1 ELSE start
    IN  [k \in 1..(IF from > stop THEN from - stop ELSE 0) |-> lst[from - k + 2]]

\* sum(2*n for n in lst)
sumDouble(lst) == 2 * sumFirst(lst, Len(lst))

\* MeshRegion.globalXInd(i) of the region with radial index ri
globalXInd(ri, i) ==
    IF ri >= sep_index
    THEN i + sumDouble(PySlice(segment_nx, sep_index, ri))
    ELSE i - sumDouble(PySliceBack(segment_nx, sep_index, ri))

SegmentNumbers == {1, 2, 3}

\* options.nx: one, two or three radial segments of 1 or 2 cells
SegmentCells == UNION {[1..n -> CellCounts] : n \in SegmentNumbers}

XIndStart ==
    /\ segment_nx \in SegmentCells
    /\ sep_index \in 0..Len(segment_nx)
    /\ global_xind = <<>>
    /\ xind_region = 0

\* no MeshRegion is being built
XIndParked ==
    /\ segment_nx = <<>>
    /\ sep_index = 0
    /\ global_xind = <<>>
    /\ xind_region = 0

\* MeshRegion.__init__ for the next radial segment:
\* 'self.contours[i].global_xind = self.globalXInd(i)' for every contour
SetGlobalXInd ==
    /\ xind_region < Len(segment_nx)
    /\ global_xind' =
          Append(global_xind,
                 [k \in 1..(2 * segment_nx[xind_region + 1] + 1)
                     |-> globalXInd(xind_region, k - 1)])
    /\ xind_region' = xind_region + 1
    /\ UNCHANGED <<segment_nx, sep_index>>
    /\ UNCHANGED OthersOfXInd

(***************************************************************************)
(* Equilibrium.makeConnection.  A segment (region name, radial index) is   *)
(* written as the number of the MeshRegion that Mesh.__init__ makes of it. *)
(***************************************************************************)
\* the assertion on an edge left out
EdgeFreeUnchecked(conn, seg) == TRUE

\* 'assert ...connections[segment]["upper"/"lower"] is None'
EdgeFree(conn, seg) == conn[seg] = NoRegion

ConnectStart ==
    /\ conn_nx \in [Regions -> CellCounts]
    /\ conn_upper = [r \in Regions |-> NoRegion]
    /\ conn_lower = [r \in Regions |-> NoRegion]
    /\ conn_call = <<>>
    /\ conn_error = ""

\* makeConnection is not in use
ConnectParked ==
    /\ conn_nx = [r \in Regions |-> 1]
    /\ conn_upper = [r \in Regions |-> NoRegion]
    /\ conn_lower = [r \in Regions |-> NoRegion]
    /\ conn_call = <<>>
    /\ conn_error = "parked"

\* equilibrium.makeConnection(lowerRegion, lowerSegment, upperRegion, upperSegment)
MakeConnection ==
    /\ conn_error # "parked"
    /\ \E lseg \in Regions, useg \in Regions :
         /\ conn_call' = <<lseg, useg>>
         /\ IF ~EdgeFree(conn_upper, lseg)
            THEN /\ conn_error' = "lRegion.connections['upper'] should not have been set already"
                 /\ UNCHANGED <<conn_upper, conn_lower>>
            ELSE IF ~EdgeFree(conn_lower, useg)
            THEN /\ conn_error' = "uRegion.connections['lower'] should not have been set already"
                 /\ UNCHANGED <<conn_upper, conn_lower>>
            ELSE IF conn_nx[lseg] # conn_nx[useg]
            THEN /\ conn_error' = "nx should match across connection"
                 /\ UNCHANGED <<conn_upper, conn_lower>>
            ELSE /\ conn_upper' = [conn_upper EXCEPT ![lseg] = useg]
                 /\ conn_lower' = [conn_lower EXCEPT ![useg] = lseg]
                 /\ conn_error' = ""
    /\ UNCHANGED conn_nx
    /\ UNCHANGED OthersOfConnect

(***************************************************************************)
(* Specifications                                                          *)
(***************************************************************************)
NextGeom ==
    \/ MakeYGroup
    \/ MakeRegionsDone
    \/ FillRZ
    \/ GetRZBoundary
    \/ RegionGeometry
    \/ CalcZShiftEnter
    \/ CalcZShiftPass
    \/ CalcMetric

InitGeom == GeomStart /\ ContParked /\ RefineParked /\ FineParked /\ WallParked /\ SfuncParked /\ DistributeParked /\ RZParked /\ GridParked /\ MetricParked /\ ArrayParked /\ ReverseParked /\ IntersectParked /\ FindParked /\ GroupsParked /\ XIndParked /\ ConnectParked

SpecGeom == InitGeom /\ [][NextGeom]_vars

NextContour ==
    \/ SetStartInd
    \/ SetEndInd
    \/ SetExtendLower
    \/ SetExtendUpper
    \/ AppendPoint
    \/ PrependPoint
    \/ InsertPoint
    \/ ReadFineContour
    \/ ReadDistance

InitContour == ContStart /\ GeomParked /\ RefineParked /\ FineParked /\ WallParked /\ SfuncParked /\ DistributeParked /\ RZParked /\ GridParked /\ MetricParked /\ ArrayParked /\ ReverseParked /\ IntersectParked /\ FindParked /\ GroupsParked /\ XIndParked /\ ConnectParked

SpecContour == InitContour /\ [][NextContour]_vars

NextRefine ==
    \/ RefineEnter
    \/ TryMethod
    \/ NewtonStep
    \/ LineAttempt
    \/ Integrate
    \/ RefineRaise

InitRefine == RefineStart /\ GeomParked /\ ContParked /\ FineParked /\ WallParked /\ SfuncParked /\ DistributeParked /\ RZParked /\ GridParked /\ MetricParked /\ ArrayParked /\ ReverseParked /\ IntersectParked /\ FindParked /\ GroupsParked /\ XIndParked /\ ConnectParked

SpecRefine == InitRefine /\ [][NextRefine]_vars

\* refinePoint called with the line search as its only method; it keeps running
\* until it returns or raises
NextLinesearch ==
    \/ RefineEnter
    \/ TryMethod
    \/ LineAttempt
    \/ RefineRaise

LinesearchInit == InitRefine /\ (\A k \in 1..Len(methods) : methods[k] = "line")

SpecLinesearch == LinesearchInit /\ [][NextLinesearch]_vars /\ WF_vars(NextLinesearch)

NextFine ==
    \/ FineInit
    \/ FineExtend
    \/ EqualiseEnter
    \/ EqualiseDone
    \/ EqualiseWarnBreak
    \/ EqualisePass

InitFine == FineStart /\ GeomParked /\ ContParked /\ RefineParked /\ WallParked /\ SfuncParked /\ DistributeParked /\ RZParked /\ GridParked /\ MetricParked /\ ArrayParked /\ ReverseParked /\ IntersectParked /\ FindParked /\ GroupsParked /\ XIndParked /\ ConnectParked

SpecFine == InitFine /\ [][NextFine]_vars

\* The program keeps running: a step that can be taken is taken
SpecFineFair == InitFine /\ [][NextFine]_vars /\ WF_vars(NextFine)

NextWall ==
    \/ LowerSearch
    \/ LowerExtend
    \/ LowerFound
    \/ UpperSearch
    \/ UpperExtend
    \/ UpperFound
    \/ AddWallPoints

InitWall == WallStart /\ GeomParked /\ RefineParked /\ FineParked /\ SfuncParked /\ DistributeParked /\ RZParked /\ GridParked /\ MetricParked /\ ArrayParked /\ ReverseParked /\ IntersectParked /\ FindParked /\ GroupsParked /\ XIndParked /\ ConnectParked

SpecWall == InitWall /\ [][NextWall]_vars

NextSfunc ==
    \/ GetRegridded
    \/ GetRegriddedRaise
    \/ SegmentsDone

InitSfunc == SfuncStart /\ GeomParked /\ ContParked /\ RefineParked /\ FineParked /\ WallParked /\ DistributeParked /\ RZParked /\ GridParked /\ MetricParked /\ ArrayParked /\ ReverseParked /\ IntersectParked /\ FindParked /\ GroupsParked /\ XIndParked /\ ConnectParked

SpecSfunc == InitSfunc /\ [][NextSfunc]_vars

NextDistribute ==
    \/ DistributeContour
    \/ DistributeRaise
    \/ DistributeDone

InitDistribute == DistributeStart /\ GeomParked /\ ContParked /\ RefineParked /\ FineParked /\ WallParked /\ RZParked /\ GridParked /\ MetricParked /\ ArrayParked /\ ReverseParked /\ IntersectParked /\ FindParked /\ GroupsParked /\ XIndParked /\ ConnectParked

SpecDistribute == InitDistribute /\ [][NextDistribute]_vars

NextRZ ==
    \/ RegionFillRZ
    \/ RegionGetRZBoundary
    \/ RegionGetRZBoundaryNone

InitRZ == RZStart /\ GeomParked /\ ContParked /\ RefineParked /\ FineParked /\ WallParked /\ SfuncParked /\ DistributeParked /\ GridParked /\ MetricParked /\ ArrayParked /\ ReverseParked /\ IntersectParked /\ FindParked /\ GroupsParked /\ XIndParked /\ ConnectParked

SpecRZ == InitRZ /\ [][NextRZ]_vars

NextGrid ==
    \/ MeshInit
    \/ BoutMeshInit
    \/ MeshGeometry
    \/ RegionCalcMetric
    \/ AddFromRegions

InitGrid == GridStart /\ GeomParked /\ ContParked /\ RefineParked /\ FineParked /\ WallParked /\ SfuncParked /\ DistributeParked /\ RZParked /\ MetricParked /\ ArrayParked /\ ReverseParked /\ IntersectParked /\ FindParked /\ GroupsParked /\ XIndParked /\ ConnectParked

SpecGrid == InitGrid /\ [][NextGrid]_vars

NextTopology ==
    \/ MeshInit
    \/ BoutMeshInit
    \/ WriteGridfile

SpecTopology == InitGrid /\ [][NextTopology]_vars

NextMetric ==
    \/ DirectionGeometry
    \/ JacobianCalcMetric

InitMetric == MetricStart /\ GeomParked /\ ContParked /\ RefineParked /\ FineParked /\ WallParked /\ SfuncParked /\ DistributeParked /\ RZParked /\ GridIdle /\ ArrayParked /\ ReverseParked /\ IntersectParked /\ FindParked /\ GroupsParked /\ XIndParked /\ ConnectParked
              /\ shiftedmetric \in BOOLEAN /\ curvature_type \in CurvatureTypes

SpecMetric == InitMetric /\ [][NextMetric]_vars

NextArray ==
    \/ \E x \in ArrayNames, loc \in Locations : SetLocation(x, loc)
    \/ \E x \in ArrayNames, loc \in Locations : GetLocation(x, loc)
    \/ \E x \in ArrayNames, y \in ArrayNames : ArrayUfunc(x, y)

InitArray == ArrayStart /\ GeomParked /\ ContParked /\ RefineParked /\ FineParked /\ WallParked /\ SfuncParked /\ DistributeParked /\ RZParked /\ GridParked /\ MetricParked /\ ReverseParked /\ IntersectParked /\ FindParked /\ GroupsParked /\ XIndParked /\ ConnectParked

SpecArray == InitArray /\ [][NextArray]_vars

NextReverse ==
    \/ FineContourInit
    \/ \E el \in 0..MaxFineExtend, eu \in 0..MaxFineExtend : FineContourExtend(el, eu)
    \/ FineContourReverse

InitReverse == ReverseStart /\ GeomParked /\ ContParked /\ RefineParked /\ FineParked /\ WallParked /\ SfuncParked /\ DistributeParked /\ RZParked /\ GridParked /\ MetricParked /\ ArrayParked /\ IntersectParked /\ FindParked /\ GroupsParked /\ XIndParked /\ ConnectParked

SpecReverse == InitReverse /\ [][NextReverse]_vars

NextIntersect ==
    \/ WallIntersection

InitIntersect == IntersectStart /\ GeomParked /\ ContParked /\ RefineParked /\ FineParked /\ WallParked /\ SfuncParked /\ DistributeParked /\ RZParked /\ GridParked /\ MetricParked /\ ArrayParked /\ ReverseParked /\ FindParked /\ GroupsParked /\ XIndParked /\ ConnectParked

SpecIntersect == InitIntersect /\ [][NextIntersect]_vars

NextFind ==
    \/ InsertFindPosition

InitFind == FindStart /\ GeomParked /\ ContParked /\ RefineParked /\ FineParked /\ WallParked /\ SfuncParked /\ DistributeParked /\ RZParked /\ GridParked /\ MetricParked /\ ArrayParked /\ ReverseParked /\ IntersectParked /\ GroupsParked /\ XIndParked /\ ConnectParked

SpecFind == InitFind /\ [][NextFind]_vars

NextGroups ==
    \/ MakeXGroup
    \/ (x_region_set = {} /\ MakeYGroup)
    \/ (x_region_set = {} /\ MakeRegionsDone)

InitGroups == GroupsStart /\ GeomStart /\ dphi = [r \in Regions |-> 1] /\ ContParked /\ RefineParked /\ FineParked /\ WallParked /\ SfuncParked /\ DistributeParked /\ RZParked /\ GridParked /\ MetricParked /\ ArrayParked /\ ReverseParked /\ IntersectParked /\ FindParked /\ XIndParked /\ ConnectParked

SpecGroups == InitGroups /\ [][NextGroups]_vars

NextXInd ==
    \/ SetGlobalXInd

InitXInd == XIndStart /\ GeomParked /\ ContParked /\ RefineParked /\ FineParked /\ WallParked /\ SfuncParked /\ DistributeParked /\ RZParked /\ GridParked /\ MetricParked /\ ArrayParked /\ ReverseParked /\ IntersectParked /\ FindParked /\ GroupsParked /\ ConnectParked

SpecXInd == InitXInd /\ [][NextXInd]_vars

NextConnect ==
    \/ MakeConnection

InitConnect == ConnectStart /\ GeomParked /\ ContParked /\ RefineParked /\ FineParked /\ WallParked /\ SfuncParked /\ DistributeParked /\ RZParked /\ GridParked /\ MetricParked /\ ArrayParked /\ ReverseParked /\ IntersectParked /\ FindParked /\ GroupsParked /\ XIndParked

SpecConnect == InitConnect /\ [][NextConnect]_vars

(***************************************************************************)
(* Properties of Mesh.geometry and calcZShift                              *)
(***************************************************************************)
\* The regions of y-group g in the order the walks of calcZShift computed them
VisitsOf(g) == SelectSeq(zlog, LAMBDA r : SeqContains(g, r))

IsPrefix(s, t) == Len(s) <= Len(t) /\ \A k \in 1..Len(s) : s[k] = t[k]

\* Some region can reach itself along 'upper' connections (closed field lines)
RECURSIVE ReachesUp(_, _, _)
ReachesUp(r, target, fuel) ==
    IF fuel = 0 \/ getNeighbourUpper(r) = NoRegion THEN FALSE
    ELSE getNeighbourUpper(r) = target \/ ReachesUp(getNeighbourUpper(r), target, fuel - 1)

InPeriodicGroup(r) == ReachesUp(r, r, NRegions)

\* C1: in one run of Mesh.geometry the phases are separated by barriers: fillRZ has
\* finished in every region before getRZBoundary starts in any region,
\* getRZBoundary has finished in every region before the per-region geometry()
\* starts in any region, and geometry() has finished in every region before
\* calcMetric starts in any region.
C1_PhaseBarriers ==
    \A r, q \in Regions :
        /\ "getRZBoundary" \in started[r] => "fillRZ" \in ran[q]
        /\ "geometry" \in started[r] => "getRZBoundary" \in ran[q]
        /\ "calcMetric" \in started[r] => "geometry" \in ran[q]

\* Witness of C1: a run of Mesh.geometry over several regions has completed
C1_Witness ==
    /\ gpc = "done"
    /\ NRegions >= 2
    /\ \A r \in Regions : ran[r] = Phases

\* C2: within every y-group calcZShift assigns zShift in strictly increasing
\* yGroupIndex order starting from yGroupIndex 0, each region exactly once, the
\* lower edge of each next region equals the upper edge of the previous one, and
\* when calcMetric starts every region of the group has its zShift.
C2_ZShiftGroupOrder ==
    \A n \in 1..Len(y_groups) :
        LET g == y_groups[n]
            seen == VisitsOf(g)
        IN  /\ IsPrefix(seen, g)
            /\ \A k \in 2..Len(seen) : zShift[g[k]].lo = zShift[g[k - 1]].hi
            /\ (gpc \in {"calcMetric", "done"} => seen = g)

\* C3: calcZShift terminates for every y-group makeRegions can build, periodic
\* ones included: the walk along 'upper' neighbours visits each region of the
\* group once and then stops, so no region is integrated a second time.
C3_WalkVisitsOnce ==
    \A r \in Regions : Len(SelectSeq(zlog, LAMBDA q : q = r)) <= 1

\* The two claims above on the y-groups that are not periodic (open field lines)
OpenGroupsZShiftOrder ==
    (\A r \in Regions : ~InPeriodicGroup(r)) => (C2_ZShiftGroupOrder /\ C3_WalkVisitsOnce)

(***************************************************************************)
(* Properties of the PsiContour caches                                     *)
(***************************************************************************)
\* What a FineContour and the distance list are computed from
ContourState == <<points, startInd, endInd, extend_lower, extend_upper>>

\* C4: after any mutation of a PsiContour (assigning a different startInd or
\* endInd, prepend, append, insert at any index, assigning a different
\* extend_lower or extend_upper) both the cached FineContour and the cached
\* distance list are cleared.
C4_MutationClearsCaches ==
    [][ContourState' # ContourState =>
          (fine_contour' = "none" /\ distance' = "none")]_vars

(***************************************************************************)
(* Properties of PsiContour.refinePoint                                    *)
(***************************************************************************)
\* refine_atol * max(|psival|, 1) as a bound on the residual r
WithinTolerance(r, pv) == 2 * r <= refine_atol * (IF pv > 2 THEN pv ELSE 2)

\* C5: every point that refinePoint returns for a contour with target value
\* psival satisfies |psi - psival| <= refine_atol * max(|psival|, 1), for every
\* list of methods and whichever listed method produced the point.
C5_ReturnedWithinTolerance ==
    (rpc = "returned" /\ psival # NonePsival) => WithinTolerance(result, psival)

\* C5 as the code has it: the bound holds for the points that refinePointNewton
\* returns (methods "newton" and "integrate+newton").
C5_NewtonWithinTolerance ==
    (rpc = "returned" /\ psival # NonePsival
        /\ producer \in {"newton", "integrate+newton"})
    => WithinTolerance(result, psival)

\* Newton iterated from a point outside the tolerance and returned
C5_Witness ==
    /\ rpc = "returned"
    /\ producer = "newton"
    /\ ncount >= 1
    /\ ~WithinTolerance(p_in, psival)

\* C6: refinePoint calls the listed methods in order, each called method but
\* the last having raised SolutionError; it returns the result of the first
\* method that does not raise, calling none after it; and it raises
\* SolutionError exactly when every listed method has raised.
C6_MethodOrder ==
    /\ IsPrefix(tried, methods)
    /\ IsPrefix(raisedLog, tried)
    /\ Len(tried) <= Len(raisedLog) + 1
    /\ rpc = "returned" =>
          /\ Len(tried) = Len(raisedLog) + 1
          /\ producer = tried[Len(tried)]
    /\ rpc = "raised" => raisedLog = methods
    /\ raisedLog = methods => rpc \in {"loop", "raised"}

\* C6 as the code has it: the same, for a contour whose psival is set (with
\* psival None refinePoint returns p and calls no method).
C6_MethodOrderPsivalSet ==
    psival # NonePsival => C6_MethodOrder

\* The first listed method raised and the second returned the point
C6_Witness ==
    /\ rpc = "returned"
    /\ Len(methods) = 2
    /\ raisedLog = <<methods[1]>>
    /\ producer = methods[2]

(***************************************************************************)
(* Properties of FineContour                                               *)
(***************************************************************************)
\* C7: every FineContour, once its constructor or extend() has returned, has
\* max |ds - mean(ds)| <= finecontour_atol.
C7_EqualSpacing ==
    fpc = "returned" => ds_error <= finecontour_atol

\* C7 as the code has it: the spacing is within tolerance when the constructor
\* or extend() returned without the maximum-iterations warning.
C7_EqualSpacingUnlessWarned ==
    (fpc = "returned" /\ ~warned) => ds_error <= finecontour_atol

\* extend() returned after at least one re-sample/refine pass, without warning
C7_Witness ==
    /\ fpc = "returned"
    /\ caller = "extend"
    /\ ~warned
    /\ count >= 2

\* C8: equaliseSpacing terminates for every value of finecontour_maxits,
\* including an unset or zero value: a call that has reached its loop returns
\* or raises.
C8_Terminates ==
    (fpc = "loop") ~> (fpc \in {"returned", "raised"})

\* C8 as the code has it: equaliseSpacing terminates for every positive
\* finecontour_maxits (None and 0 both switch the iteration limit off).
C8_TerminatesMaxitsSet ==
    (fpc = "loop" /\ finecontour_maxits > 0) ~> (fpc \in {"returned", "raised"})

\* The pass count exceeded finecontour_maxits: warned and returned
C8_Witness ==
    /\ fpc = "returned"
    /\ warned
    /\ finecontour_maxits > 0
    /\ count > finecontour_maxits
    /\ ds_error > finecontour_atol

(***************************************************************************)
(* Properties of MeshRegion.addPointAtWallToContours                       *)
(***************************************************************************)
\* C9: the contour is extended one point at a time for up to max_extend (100)
\* extensions per end; an intersection found after 1 to 100 extensions is
\* accepted, and the operation fails only when none is found within 100.
C9_ExtendUpToMax ==
    /\ wcount <= max_extend
    /\ wpc = "AssertionError" =>
          (IF lower_wall THEN lower_intersect = None ELSE upper_intersect = None)

\* The extension budget alone: never more than max_extend extensions at an end
NeverExtendedFurther == wcount <= max_extend

\* C10: after addPointAtWallToContours contour[startInd] is the point where
\* the contour meets the lower wall and contour[endInd] the point where it
\* meets the upper wall, for a region that touches one wall or both.
C10_EndsOnWall ==
    /\ wpc = "done" =>
          /\ lower_wall => PyAt(points, startInd) = wallLo
          /\ upper_wall => PyAt(points, endInd) = wallHi
    /\ (lower_wall /\ upper_wall) => wpc # "TypeError"

\* The lower end alone: contour[startInd] is on the lower wall
LowerEndOnWall ==
    (wpc = "done" /\ lower_wall) => PyAt(points, startInd) = wallLo

(***************************************************************************)
(* Properties of the spacing laws                                          *)
(***************************************************************************)
\* s(i) <= s(i+1) wherever _checkMonotonic evaluated the function
NonDecreasingWhereChecked ==
    s_regrid # NoS =>
        \A i \in DOMAIN s_regrid :
            (i >= checked[1] /\ i + 1 <= checked[2] /\ i + 1 \in DOMAIN s_regrid)
                => s_regrid[i] <= s_regrid[i + 1]

\* C11: every spacing function that a spacing law returns is strictly
\* increasing, s(i) < s(i+1), at every pair of consecutive indices of the
\* domain it is sampled on, guard-cell extensions included; a function that
\* is flat or decreasing somewhere there is rejected by the monotonicity check.
C11_StrictlyIncreasing ==
    s_regrid # NoS =>
        \A i \in DOMAIN s_regrid :
            i + 1 \in DOMAIN s_regrid => s_regrid[i] < s_regrid[i + 1]

(***************************************************************************)
(* Properties of MeshRegion.distributePointsNonorthogonal                  *)
(***************************************************************************)
\* a value outside the recognised set is rejected
UnknownMethodRejected ==
    nonorthogonal_spacing_method = UnknownMethod =>
        /\ sfunc_log = <<>>
        /\ dpc \in {"loop", "ValueError: Unrecognized option"}

\* the four methods that bind sfunc to a function regrid every contour unless
\* the combined function is found decreasing
FunctionMethodsRegrid ==
    nonorthogonal_spacing_method \in
        {"orthogonal", "poloidal_orthogonal_combined", "perp_orthogonal_combined",
         "combined"}
    => dpc \in {"loop", "done", "ValueError: decreasing"}

\* C12: for each of the seven recognised values of
\* nonorthogonal_spacing_method, distributePointsNonorthogonal builds a
\* spacing function for every contour and regrids the contour with it (the
\* method is not rejected, and no contour fails on what sfunc is bound to);
\* only a value outside the set is rejected.
C12_RecognisedMethodsRegrid ==
    /\ nonorthogonal_spacing_method \in NonorthogonalSpacingMethods
        => dpc \notin {"ValueError: Unrecognized option", "TypeError"}
    /\ nonorthogonal_spacing_method \notin NonorthogonalSpacingMethods
        => dpc # "done"

(***************************************************************************)
(* Properties of fillRZ and getRZBoundary                                  *)
(***************************************************************************)
RZBoundaryDone == filled = RZRegions /\ matched = RZRegions

\* ylow[:, -1] and corners[:, -1] equal the upper neighbour's ylow[:, 0] and
\* corners[:, 0]
PoloidalFacesAgree ==
    RZBoundaryDone =>
        \A r \in RZRegions :
            rzUpper(r) # NoNeighbour =>
                /\ Rxy_ylow[r]["last"] = Rxy_ylow[rzUpper(r)]["first"]
                /\ \A row \in {0, 1} :
                       Rxy_corners[r][row]["last"] = Rxy_corners[rzUpper(r)][row]["first"]

\* corners[-1, :] equal the outer neighbour's corners[0, :]
RadialFacesAgree ==
    RZBoundaryDone =>
        \A r \in RZRegions :
            rzOuter(r) # NoNeighbour =>
                \A col \in {"first", "last"} :
                    Rxy_corners[r][1][col] = Rxy_corners[rzOuter(r)][0][col]

\* C13: after fillRZ has run in every region and then getRZBoundary has run
\* in every region, in any region order, the values on every face shared by
\* two regions are exactly equal on both sides: on poloidal faces (ylow and
\* corners) and on radial faces (corners), corners that touch both included.
C13_SharedFacesAgree == PoloidalFacesAgree /\ RadialFacesAgree

(***************************************************************************)
(* Properties of the BoutMesh run and of writeGridfile                     *)
(***************************************************************************)

TopologyErrors ==
    {"AssertionError: x-grid sizes", "ValueError: More than two separatrices",
     "ValueError: Unrecognized topology"}

NoNumericalWork ==
    /\ regions_built = 0
    /\ \A r \in DOMAIN region_arrays : region_arrays[r] = {}
    /\ ~file_created
    /\ gridfile = NoFile

\* C14: a topology error (incompatible x-sizing, unsupported number of
\* y-regions, more than two separatrices) is raised before any MeshRegion is
\* built, before any geometry or metric is computed and before the grid file
\* is created or written to.
C14_TopologyErrorFirst == berror \in TopologyErrors => NoNumericalWork

\* the part of C14 that the code does keep: the errors of writeGridfile leave
\* the topology indices and the trailer out of the file
TopologyErrorWritesNoIndices ==
    berror \in TopologyErrors => "jyseps1_1" \notin DOMAIN gridfile

\* number of separatrices in the grid: one fewer than the radial segments
NumSeparatrices == Len(options_nx) - 1

\* start index of radial segment k (k = 1 is the innermost)
SegmentStart(k) == sumFirst(options_nx, k - 1)

\* ixseps as the number of separatrices determines them, before the y-topology
\* is taken into account
ExpectedIxseps1 ==
    IF NumSeparatrices = 0
       THEN (IF separatrix_radial_index = 0 THEN 0 - 1 ELSE nx)
       ELSE SegmentStart(2)

ExpectedIxseps2 ==
    IF NumSeparatrices = 0
       THEN (IF separatrix_radial_index = 0 THEN 0 - 1 ELSE nx)
    ELSE IF NumSeparatrices = 1 THEN nx
    ELSE SegmentStart(3)

\* C15: ixseps1 and ixseps2 follow the number of separatrices: none gives -1
\* (SOL-only) or nx (core-only), one gives the start of the second radial
\* segment and nx, two distinct separatrices are accepted and give the starts
\* of the second and third segments, only more than two are rejected, and
\* with 4 y-regions or a connected double-null ixseps2 = ixseps1.
C15_IxsepsFromSeparatrices ==
    /\ berror = "ValueError: More than two separatrices" => NumSeparatrices > 2
    /\ bpc = "written" =>
          /\ gridfile.ixseps1 = ExpectedIxseps1
          /\ gridfile.ixseps2 =
                IF NumYRegions = 4 \/ (NumYRegions = 6 /\ NumSeparatrices = 1)
                   THEN gridfile.ixseps1 ELSE ExpectedIxseps2

\* what the code does: the branches are taken on the number of radial
\* segments as if it were the number of separatrices
IxsepsOffByOne ==
    /\ berror = "ValueError: More than two separatrices" <=>
          (file_created /\ NumSeparatrices >= 2)
    /\ bpc = "written" =>
          /\ NumSeparatrices = 0 => gridfile.ixseps1 = nx /\ gridfile.ixseps2 = nx
          /\ NumSeparatrices = 1 =>
                /\ gridfile.ixseps1 = SegmentStart(2)
                /\ gridfile.ixseps2 = IF NumYRegions \in {4, 6} THEN SegmentStart(2) ELSE nx

\* the indices of the y-topology, as written
YIndexNames == {"jyseps1_1", "jyseps2_1", "ny_inner", "jyseps1_2", "jyseps2_2"}

SupportedYRegions == {1, 3, 4, 6}

\* C16: 1, 3, 4 or 6 y-regions are accepted and every other number is
\* rejected as an unsupported topology; for 3 regions jyseps1_1 = n[0] - 1
\* and jyseps2_2 = ny - n[2] - 1, with ny the guard-free total written as
\* 'ny'; every written jyseps index and ny_inner lies between -1 and that ny.
C16_YTopologyIndices ==
    /\ (file_created /\ Len(eq_ny_noguards) \notin SupportedYRegions
          /\ berror # "ValueError: More than two separatrices") =>
          berror = "ValueError: Unrecognized topology"
    /\ (file_created /\ Len(eq_ny_noguards) \in SupportedYRegions
          /\ berror # "ValueError: More than two separatrices") => bpc = "written"
    /\ bpc = "written" =>
          /\ Len(eq_ny_noguards) = 3 =>
                /\ gridfile.jyseps1_1 = eq_ny_noguards[1] - 1
                /\ gridfile.jyseps2_2 = gridfile.ny - eq_ny_noguards[3] - 1
          /\ \A name \in YIndexNames :
                0 - 1 <= gridfile[name] /\ gridfile[name] <= gridfile.ny

\* the parts of C16 the code keeps: 2 and 5 regions are rejected, 1, 3, 4 and 6
\* are written, and the two single-null formulas hold
YTopologyKept ==
    /\ (file_created /\ Len(eq_ny_noguards) \in {2, 5}
          /\ berror # "ValueError: More than two separatrices") =>
          berror = "ValueError: Unrecognized topology"
    /\ (file_created /\ Len(eq_ny_noguards) \in SupportedYRegions
          /\ berror # "ValueError: More than two separatrices") => bpc = "written"
    /\ (bpc = "written" /\ Len(eq_ny_noguards) = 3) =>
          /\ gridfile.jyseps1_1 = eq_ny_noguards[1] - 1
          /\ gridfile.jyseps2_2 = gridfile.ny - eq_ny_noguards[3] - 1
    /\ (bpc = "written" /\ (user_guards = 0 \/ wall_ends = 0)) =>
          \A name \in YIndexNames :
                0 - 1 <= gridfile[name] /\ gridfile[name] <= gridfile.ny

ShiftedMetricError == "ValueError: shiftedmetric == False not handled"

C20_CurvatureFieldsAssigned ==
    (shiftedmetric /\ curvature_type \in {"curl(b/B)", "bxkappa"}) =>
        /\ berror \in {"none", "AssertionError: x-grid sizes"}
        /\ bpc = "addFromRegions" =>
              \A k \in DOMAIN OutputNames : Collectable(OutputNames[k])

\* what the code does: geometry() returns for no input, and no region is ever
\* given a curl_bOverB_x/y/z attribute or a per-location bxcv array
GeometryNeverReturns ==
    /\ bpc # "geometry returned"
    /\ \A r \in DOMAIN region_arrays :
          region_arrays[r] \cap
             ({"curl_bOverB_x", "curl_bOverB_y", "curl_bOverB_z"} \cup BxcvFields) = {}
    /\ (curvature_type = "bxkappa" /\ berror \notin {"none", "AssertionError: x-grid sizes",
                                                     ShiftedMetricError}) =>
          /\ berror = "KeyError"
          /\ fields_to_output[Len(fields_to_output)] = "curl_bOverB_x"

(***************************************************************************)
(* Properties of the field direction and the Jacobian                      *)
(***************************************************************************)

\* |a - b| / |a| < geometry_rtol
WithinRtol(a, b) ==
    RatLess(RatDiv(RatAbs(RatSub(a, b)), RatAbs(a)), geometry_rtol)

\* geometry() of the region has returned
GeometryCompleted ==
    mpc \in {"calcMetric", "done"} \/ (mpc = "failed" /\ merror # "ValueError: Sign of Bp")

\* the sign of Bp . Grad(y) agrees with bpsign
DirectionAgrees == (Bp_dot_grady < 0) <=> (bpsign < 0)

DirectionChecked ==
    /\ GeometryCompleted => DirectionAgrees
    /\ (mpc = "failed" /\ merror = "ValueError: Sign of Bp") => ~DirectionAgrees

\* C18: where calcMetric completes, J = hy/Bpxy agrees with 1/sqrt(det g)
\* within geometry_rtol at every location that is not an X-point corner, for
\* both field directions; and geometry() completes only when the sign of
\* Bp . Grad(y) agrees with bpsign, failing otherwise.
C18_JacobianAgrees ==
    /\ (mpc = "done" /\ ~at_xpoint) => WithinRtol(J, one_over_sqrt_g)
    /\ DirectionChecked

\* C18 as the code has it: J agrees with bpsign / sqrt(det g), so with
\* bpsign = -1 it is the negative of 1/sqrt(det g)
C18_JacobianAgreesSigned ==
    /\ (mpc = "done" /\ ~at_xpoint) =>
          WithinRtol(J, RatMul(RatInt(bpsign), one_over_sqrt_g))
    /\ DirectionChecked

\* calcMetric completed in a region with bpsign = -1, at an ordinary location
\* where 1/sqrt(det g) carries a rounding error
C18_Witness ==
    /\ mpc = "done"
    /\ ~at_xpoint
    /\ bpsign = 0 - 1
    /\ sqrt_error # NoValue

(***************************************************************************)
(* Properties of MultiLocationArray                                        *)
(***************************************************************************)

\* C19: a location becomes materialised only by assigning to it (reading it,
\* or using the array as an operand, never does), and the result of an
\* elementwise operation has a location exactly when every operand has it,
\* whatever the order of the operands.
C19_LazyPerLocation ==
    /\ \A x \in DOMAIN materialised : materialised[x] \subseteq assigned[x]
    /\ operands # NoOperands =>
          /\ ufunc_error = "none"
          /\ ufunc_result = operands[1] \cap operands[2]

\* what the code does: the result has the locations of the first operand, and
\* the operation fails when the second operand lacks one of them
ResultFollowsFirstOperand ==
    operands # NoOperands =>
        IF operands[1] \subseteq operands[2]
           THEN ufunc_error = "none" /\ ufunc_result = operands[1]
           ELSE ufunc_error = "TypeError"

\* the part of C19 that the code keeps: a ufunc materialises nothing in its operands
UfuncLeavesOperands ==
    [][operands' # operands => materialised' = materialised]_vars

(***************************************************************************)
(* Properties of FineContour                                               *)
(***************************************************************************)

\* after one reverse(): the point at startInd is the one that was at endInd,
\* and distance is the last distance minus the reversed distances
SingleReverse ==
    reversals = 1 =>
        LET n == Len(positions)
        IN  /\ positions[fine_startInd + 1] =
                  before_reverse.positions[before_reverse.endInd + 1]
            /\ positions[fine_endInd + 1] =
                  before_reverse.positions[before_reverse.startInd + 1]
            /\ fine_distance =
                  [i \in 1..n |-> Float(before_reverse.distance[n]
                                          - before_reverse.distance[n + 1 - i])]

\* C21: reversing a FineContour twice restores its positions, its distance
\* array, startInd and endInd exactly, whatever the numbers of extension
\* points at its two ends; after one reverse the point at startInd is the
\* point that was at endInd and distance is (total - reversed distance).
C21_ReverseTwiceRestores ==
    /\ reversals = 2 => FineSnapshot = before_reverse
    /\ SingleReverse

\* the part of C21 that holds: positions and indices come back, and so does
\* every distance that the subtraction from the total represents exactly
ReverseTwiceRestoresIndices ==
    /\ reversals = 2 =>
          /\ positions = before_reverse.positions
          /\ fine_startInd = before_reverse.startInd
          /\ fine_endInd = before_reverse.endInd
          /\ fine_distance[1] = 0
          /\ fine_distance[Len(positions)] = before_reverse.distance[Len(positions)]
    /\ SingleReverse
    /\ fine_pc = "ready" => fine_distance[1] = 0

\* C22: after any sequence of construction, extend() and reverse() calls,
\* 0 <= startInd <= endInd <= number of points - 1, the points below startInd
\* are exactly the extend_lower_fine points of the lower extension, those
\* above endInd are exactly the extend_upper_fine points of the upper
\* extension, and no extension point lies inside [startInd, endInd].
C22_ExtensionsOutside ==
    fine_pc = "ready" =>
        LET n == Len(positions)
        IN  /\ 0 <= fine_startInd /\ fine_startInd <= fine_endInd
            /\ fine_endInd <= n - 1
            /\ fine_startInd = extend_lower_fine
            /\ n - 1 - fine_endInd = extend_upper_fine
            /\ \A i \in 0..(n - 1) :
                  IsExtension(positions[i + 1]) <=>
                     (i < fine_startInd \/ i > fine_endInd)

\* the part of C22 that holds in every state: the indices are in range and
\* Nfine - 1 apart
FineIndexRange ==
    fine_pc = "ready" =>
        /\ 0 <= fine_startInd /\ fine_startInd <= fine_endInd
        /\ fine_endInd <= Len(positions) - 1
        /\ fine_endInd - fine_startInd = Nfine - 1

(***************************************************************************)
(* Properties of the iteration bounds of refinePoint                       *)
(***************************************************************************)

\* C23: refinePointNewton takes at most 10 Newton steps: it is never about to
\* take an 11th (while it is in its loop, ncount steps have been taken and
\* the next one follows unconditionally).
C23_AtMostTenNewtonSteps == rpc = "newton" => ncount < 10

\* what the code does: 'count > 10' is first true at the 12th step
AtMostTwelveNewtonSteps == rpc = "newton" => ncount <= MaxNewtonCount + 1

\* an 11th and a 12th step are taken
TwelfthNewtonStepTaken == rpc = "newton" /\ ncount = MaxNewtonCount + 1

\* C24 (as stated): refinePointLinesearch never makes an attempt with w < atol:
\* whenever it is about to call brentq, the current w = width / 2^halvings is
\* at least atol.
C24_NoAttemptBelowAtol == rpc = "line" => width >= refine_atol * (2 ^ halvings)

\* the point returned by the line search is within the current w of p
WithinCurrentWidth == Abs(line_point[1]) * (2 ^ halvings) <= width * line_point[2]

\* a failed attempt halves w, and raises exactly if the halved w is below atol
HalveThenTest ==
    rpc = "line" /\ rpc' # "returned"
        => /\ halvings' = halvings + 1
           /\ (rpc' = "loop") = (width < refine_atol * (2 ^ halvings'))
           /\ (rpc' = "line") = (width >= refine_atol * (2 ^ halvings'))

\* C24 (amended): refinePointLinesearch terminates for every starting width:
\* each failed attempt halves w, SolutionError is raised at the first halving
\* that makes w < atol, a successful attempt returns a point within the
\* current w of the initial point, and no attempt after the first is made
\* with w < atol (the first is made with the starting width, whatever it is).
C24_LinesearchTerminates ==
    /\ [](rpc = "line" /\ halvings > 0 => width >= refine_atol * (2 ^ halvings))
    /\ [](rpc = "returned" /\ producer = "line" => WithinCurrentWidth)
    /\ [][HalveThenTest]_vars
    /\ (rpc = "line" ~> rpc # "line")

\* the line search has halved w at least once and then returned a point off p
C24_Witness ==
    /\ rpc = "returned"
    /\ producer = "line"
    /\ halvings > 0
    /\ line_point[1] # 0

\* the first attempt is made with a starting width below atol
FirstAttemptBelowAtol == rpc = "line" /\ halvings = 0 /\ width < refine_atol

(***************************************************************************)
(* Properties of wallIntersection                                          *)
(***************************************************************************)
\* twice the signed area of the triangle A, B, C
Orient(A, B, C) == (B[1] - A[1]) * (C[2] - A[2]) - (B[2] - A[2]) * (C[1] - A[1])

Between(A, B, C) ==
    /\ (IF A[1] <= B[1] THEN A[1] <= C[1] /\ C[1] <= B[1] ELSE B[1] <= C[1] /\ C[1] <= A[1])
    /\ (IF A[2] <= B[2] THEN A[2] <= C[2] /\ C[2] <= B[2] ELSE B[2] <= C[2] /\ C[2] <= A[2])

Sign(x) == IF x > 0 THEN 1 ELSE IF x < 0 THEN 0 - 1 ELSE 0

\* the closed segments A-B and C-D have a point in common
SegmentsMeet(A, B, C, D) ==
    LET o1 == Sign(Orient(A, B, C))
        o2 == Sign(Orient(A, B, D))
        o3 == Sign(Orient(C, D, A))
        o4 == Sign(Orient(C, D, B))
    IN  \/ (o1 # o2 /\ o3 # o4)
        \/ (o1 = 0 /\ Between(A, B, C))
        \/ (o2 = 0 /\ Between(A, B, D))
        \/ (o3 = 0 /\ Between(C, D, A))
        \/ (o4 = 0 /\ Between(C, D, B))

\* the segment p1-p2 meets no edge of the closed wall
CrossesNoEdge ==
    \A i \in 1..Len(wall) :
        ~SegmentsMeet(wall[i], wall[(i % Len(wall)) + 1], seg_start, seg_end)

\* all the crossings found are one point, within intersect_tolerance
AllOnePoint ==
    \A i, j \in 1..Len(intersects) : SamePoint(intersects[i], intersects[j])

\* C25: wallIntersection returns no intersection when the segment crosses no
\* edge of the closed wall, returns the crossing point when all the crossings
\* found are one point within intersect_tolerance, however many edges report
\* it, and fails only when two crossings differ by more than the tolerance.
C25_OnePointReturned ==
    ipc \in {"returned", "raised"} =>
        /\ CrossesNoEdge => ipc = "returned" /\ wall_intersect = NoIntersect
        /\ Len(intersects) > 0 /\ AllOnePoint
               => ipc = "returned" /\ wall_intersect = <<intersects[1]>>
        /\ ipc = "raised" => ~AllOnePoint

\* what the code does: the same, as long as at most two edges report a crossing
OnePointReturnedUpToTwo ==
    ipc \in {"returned", "raised"} =>
        /\ CrossesNoEdge => ipc = "returned" /\ wall_intersect = NoIntersect
        /\ Len(intersects) \in {1, 2} /\ AllOnePoint
               => ipc = "returned" /\ wall_intersect = <<intersects[1]>>
        /\ ipc = "raised" /\ Len(intersects) < 3 => ~AllOnePoint

\* a crossing at a wall vertex, reported by the two edges that share it
VertexCrossingReturned ==
    /\ ipc = "returned"
    /\ Len(intersects) = 2
    /\ \E i \in 1..Len(wall) : wall_intersect = <<<<RatInt(wall[i][1]), RatInt(wall[i][2])>>>>

\* one point reported by more than two edges: the call fails
OnePointTooManyEdges == ipc = "raised" /\ AllOnePoint /\ Len(intersects) > 2

(***************************************************************************)
(* Properties of insertFindPosition                                        *)
(***************************************************************************)
\* the sequence s without its element at (0-based) index k
WithoutIndex(s, k) == SubSeq(s, 1, k) \o SubSeq(s, k + 2, Len(s))

\* the (0-based) indices of the points of the old contour nearest to new_point
NearestIndices ==
    {i \in 0..(Len(contour_before) - 1) :
        \A j \in 0..(Len(contour_before) - 1) :
            SqDistance(new_point, PyAt(contour_before, i))
                <= SqDistance(new_point, PyAt(contour_before, j))}

NearerThanAtol ==
    \E i \in NearestIndices :
        SqDistance(new_point, PyAt(contour_before, i)) < refine_atol ^ 2

\* new_point was put on the side of the old point m where m's neighbour is
\* nearer to new_point; at an end of the contour, outside it when new_point
\* is farther from the end's neighbour than the end itself is
OnCloserSide(m) ==
    LET n == Len(contour_before)
        dist(i) == SqDistance(new_point, PyAt(contour_before, i))
        after == found_index = m + 1
        before == found_index = m
    IN  IF m = 0
        THEN IF dist(1) > SqDistance(PyAt(contour_before, 0), PyAt(contour_before, 1))
             THEN before ELSE after
        ELSE IF m = n - 1
        THEN IF dist(n - 2) > SqDistance(PyAt(contour_before, n - 1),
                                         PyAt(contour_before, n - 2))
             THEN after ELSE before
        ELSE IF dist(m - 1) > dist(m + 1) THEN after
        ELSE IF dist(m - 1) < dist(m + 1) THEN before
        ELSE after \/ before

\* C26: insertFindPosition(p) on a contour of two or more points: if the
\* nearest point is closer to p than refine_atol the contour is unchanged and
\* that point's index is returned; otherwise exactly one point is added, the
\* returned index k has contour[k] = p, the old points keep their order, and
\* p is next to the nearest old point on the side of its closer neighbour
\* (before the first / after the last point when p lies beyond that end).
C26_InsertFindPosition ==
    fppc = "returned" =>
        IF NearerThanAtol
        THEN /\ psi_contour.points = contour_before
             /\ found_index \in NearestIndices
        ELSE /\ Len(psi_contour.points) = Len(contour_before) + 1
             /\ PyAt(psi_contour.points, found_index) = new_point
             /\ WithoutIndex(psi_contour.points, found_index) = contour_before
             /\ \E m \in NearestIndices : OnCloserSide(m)

\* a point was inserted after an interior nearest point
C26_Witness ==
    /\ fppc = "returned"
    /\ ~NearerThanAtol
    /\ Len(psi_contour.points) = Len(contour_before) + 1
    /\ \E m \in NearestIndices :
          m > 0 /\ m < Len(contour_before) - 1 /\ found_index = m + 1

(***************************************************************************)
(* Properties of the groups built by makeRegions                           *)
(***************************************************************************)
\* the places <<group, position>> of region r in a list of groups
PlacesIn(groups, r) ==
    {gk \in UNION {{<<g, k>> : k \in 1..Len(groups[g])} : g \in 1..Len(groups)} :
        groups[gk[1]][gk[2]] = r}

\* the walk along 'upper' from the last member of a y group leads to its first
PeriodicYGroup(g) == getNeighbourUpper(g[Len(g)]) = g[1]

\* C27: after makeRegions every region belongs to exactly one x_group and
\* exactly one y_group; consecutive members of a y_group are linked by
\* 'upper' and those of an x_group by 'outer'; yGroupIndex is the position
\* in the y_group; and the member with yGroupIndex 0 has no lower neighbour
\* unless its group is periodic.  The groups built so far have these
\* properties while makeRegions runs.
C27_GroupsPartition ==
    /\ \A r \in Regions :
          /\ Cardinality(PlacesIn(x_groups, r)) <= 1
          /\ Cardinality(PlacesIn(y_groups, r)) <= 1
          /\ gpc \notin {"makeRegions", "parked"} =>
                /\ Cardinality(PlacesIn(x_groups, r)) = 1
                /\ Cardinality(PlacesIn(y_groups, r)) = 1
    /\ \A g \in 1..Len(x_groups) : \A k \in 1..(Len(x_groups[g]) - 1) :
          outerOf(x_groups[g][k]) = x_groups[g][k + 1]
    /\ \A g \in 1..Len(y_groups) :
          /\ \A k \in 1..(Len(y_groups[g]) - 1) :
                getNeighbourUpper(y_groups[g][k]) = y_groups[g][k + 1]
          /\ \A k \in 1..Len(y_groups[g]) : yGroupIndex[y_groups[g][k]] = k - 1
          /\ lowerOf(y_groups[g][1]) = NoRegion \/ PeriodicYGroup(y_groups[g])

\* makeRegions has returned with an x group and a periodic y group of more
\* than one region, and a y group that is not periodic
C27_Witness ==
    /\ gpc = "fillRZ"
    /\ x_region_set = {}
    /\ \E g \in 1..Len(x_groups) : Len(x_groups[g]) > 1
    /\ \E g \in 1..Len(y_groups) : Len(y_groups[g]) > 1 /\ PeriodicYGroup(y_groups[g])
    /\ \E g \in 1..Len(y_groups) : ~PeriodicYGroup(y_groups[g])

(***************************************************************************)
(* Properties of PsiContour.insert                                         *)
(***************************************************************************)
\* startInd and endInd refer to the same points before and after the step
EndsKeepTheirPoints ==
    /\ PyAt(points', startInd') = PyAt(points, startInd)
    /\ PyAt(points', endInd') = PyAt(points, endInd)

\* C28: PsiContour.insert(index, point), for any index and for a non-negative
\* and a negative endInd alike, leaves startInd and endInd referring to the
\* points they referred to before the call, so never to the inserted point.
C28_InsertKeepsEnds == [][InsertPoint => EndsKeepTheirPoints]_vars

\* what the code does: the same as long as endInd is not negative
InsertKeepsEndsNonNegative == [][InsertPoint /\ endInd >= 0 => EndsKeepTheirPoints]_vars

\* with a negative endInd, a point inserted just after the end point is what
\* endInd refers to afterwards
EndIndOnInsertedPoint ==
    [][~(InsertPoint /\ endInd < 0 /\ PyAt(points', endInd') = Len(points) + 1)]_vars

(***************************************************************************)
(* Properties of globalXInd                                                *)
(***************************************************************************)
\* every MeshRegion of the equilibrium region has been built
AllXIndSet == segment_nx # <<>> /\ xind_region = Len(segment_nx)

\* C29: globalXInd numbers the contours of radially connected regions
\* consistently: 0 on the primary separatrix, increasing by exactly 1 from
\* each contour to the next one outward, and the contour shared by two
\* radially adjacent regions gets the same index from both, for any list of
\* nx and any separatrix_radial_index.
C29_GlobalXIndConsistent ==
    AllXIndSet =>
        /\ sep_index < Len(segment_nx) => global_xind[sep_index + 1][1] = 0
        /\ sep_index > 0 => global_xind[sep_index][Len(global_xind[sep_index])] = 0
        /\ \A r \in 1..Len(global_xind) : \A k \in 1..(Len(global_xind[r]) - 1) :
              global_xind[r][k + 1] = global_xind[r][k] + 1
        /\ \A r \in 1..(Len(global_xind) - 1) :
              global_xind[r][Len(global_xind[r])] = global_xind[r + 1][1]

\* what the code does: the regions at and outside the separatrix are numbered
\* consistently from 0 at the separatrix
XIndConsistentOutside ==
    AllXIndSet =>
        /\ sep_index < Len(segment_nx) => global_xind[sep_index + 1][1] = 0
        /\ \A r \in 1..Len(global_xind) : \A k \in 1..(Len(global_xind[r]) - 1) :
              global_xind[r][k + 1] = global_xind[r][k] + 1
        /\ \A r \in (sep_index + 1)..(Len(global_xind) - 1) :
              global_xind[r][Len(global_xind[r])] = global_xind[r + 1][1]

\* the region just inside the separatrix gives the separatrix another index
\* than 0 although all segments have the same nx
SeparatrixNotZeroInside ==
    /\ AllXIndSet
    /\ sep_index > 0
    /\ \A r \in 1..Len(segment_nx) : segment_nx[r] = segment_nx[1]
    /\ global_xind[sep_index][Len(global_xind[sep_index])] # 0

(***************************************************************************)
(* Properties of makeConnection                                            *)
(***************************************************************************)
\* segment a has upper = b exactly when segment b has lower = a
ConnectionsSymmetric ==
    \A a, b \in Regions : (conn_upper[a] = b) = (conn_lower[b] = a)

\* no two segments have the same upper neighbour or the same lower neighbour
EdgesConnectedOnce ==
    \A a, b \in Regions :
        /\ (a # b /\ conn_upper[a] # NoRegion) => conn_upper[a] # conn_upper[b]
        /\ (a # b /\ conn_lower[a] # NoRegion) => conn_lower[a] # conn_lower[b]

ConnectedNxEqual ==
    \A a \in Regions : conn_upper[a] # NoRegion => conn_nx[a] = conn_nx[conn_upper[a]]

\* the call made by this step would connect an edge twice or segments of
\* different nx
CallWouldViolate ==
    \/ conn_upper[conn_call'[1]] # NoRegion
    \/ conn_lower[conn_call'[2]] # NoRegion
    \/ conn_nx[conn_call'[1]] # conn_nx[conn_call'[2]]

\* C30: after any sequence of makeConnection calls the lower/upper
\* connections are symmetric, every segment edge is connected at most once
\* and connected segments have equal nx; a call that would violate any of
\* these fails and leaves every existing connection unchanged.
C30_ConnectionsConsistent ==
    /\ [](ConnectionsSymmetric /\ EdgesConnectedOnce /\ ConnectedNxEqual)
    /\ [][MakeConnection /\ CallWouldViolate
            => conn_error' # "" /\ UNCHANGED <<conn_upper, conn_lower>>]_vars
    /\ [][MakeConnection /\ ~CallWouldViolate
            => /\ conn_error' = ""
               /\ conn_upper'[conn_call'[1]] = conn_call'[2]
               /\ conn_lower'[conn_call'[2]] = conn_call'[1]]_vars

\* a call on an edge that is already connected has failed, with two
\* connections made before it
C30_Witness ==
    /\ conn_error = "uRegion.connections['lower'] should not have been set already"
    /\ Cardinality({a \in Regions : conn_upper[a] # NoRegion}) >= 2
    /\ conn_upper[conn_call[1]] = NoRegion

====
